---------------------------- MODULE Spec2Model ----------------------------
(* A model of the patent-analytics scripts of FusionPatentSearch: company-name  *)
(* normalization, organization classification, technology tallies, co-filing   *)
(* pairs and growth rates.  Text is modelled character by character: a string   *)
(* is a sequence of one-character strings, a non-ASCII character is written by  *)
(* its code point ("u5927"), so that substring search, case conversion and word *)
(* boundaries are computed the way the Python code computes them.               *)
EXTENDS Integers, Sequences, FiniteSets

(* ------------------------------- bounds -------------------------------- *)
\* the longest raw assignee string is a concatenation of MaxFragments fragments
MaxFragments == 2

\* the most rows of a dataframe of sample records
MaxOrgRows == 2

\* the most records of a dataframe whose technologies are tallied
MaxTechRows == 2

\* the most records of a dataframe whose co-filings are extracted
MaxCollabRows == 2

\* the most records of a dataframe whose growth rates are computed
MaxGrowthRows == 3

\* the most records fetched for the batch pipeline
MaxPipelineRows == 2

\* the most records downloaded for the dashboard
MaxLoadRows == 2

\* the most runs of the collector that store records in the folder
MaxRuns == 3

\* the most records compared by their ratios
MaxRatioRows == 2

\* the most records shown by the dashboard
MaxDashRows == 2

\* the most records a source finds in one request
MaxPageRows == 4

\* the most records of a whole run of the advanced analysis
MaxReportRows == 2

\* the most records whose assignee is a variant of the mapping
MaxMappingRows == 1

(* -------------------------- strings (Python str) ------------------------ *)
ascii_lowercase ==
  <<"a","b","c","d","e","f","g","h","i","j","k","l","m","n","o","p","q","r","s","t","u","v","w","x","y","z">>

ascii_uppercase ==
  <<"A","B","C","D","E","F","G","H","I","J","K","L","M","N","O","P","Q","R","S","T","U","V","W","X","Y","Z">>

UpperOf ==
  [c \in {ascii_lowercase[i] : i \in DOMAIN ascii_lowercase} |->
     ascii_uppercase[CHOOSE i \in DOMAIN ascii_lowercase : ascii_lowercase[i] = c]]

LowerOf ==
  [c \in {ascii_uppercase[i] : i \in DOMAIN ascii_uppercase} |->
     ascii_lowercase[CHOOSE i \in DOMAIN ascii_uppercase : ascii_uppercase[i] = c]]

upper_char(c) == IF c \in DOMAIN UpperOf THEN UpperOf[c] ELSE c

lower_char(c) == IF c \in DOMAIN LowerOf THEN LowerOf[c] ELSE c

\* a function on 1..n as a sequence value
Tuple(f) == SubSeq(f, 1, Len(f))

is_cased(c) == c \in DOMAIN UpperOf \/ c \in DOMAIN LowerOf

\* str.upper()
upper(s) == Tuple([i \in 1..Len(s) |-> upper_char(s[i])])

\* str.lower()
lower(s) == Tuple([i \in 1..Len(s) |-> lower_char(s[i])])

\* str.title(): a cased character is upper-cased when it starts a run of cased
\* characters and lower-cased inside one
str_title(s) ==
  Tuple([i \in 1..Len(s) |->
           IF i > 1 /\ is_cased(s[i-1]) THEN lower_char(s[i]) ELSE upper_char(s[i])])

\* kw in s
Contains(kw, s) ==
  \E i \in 1..(Len(s) - Len(kw) + 1) : \A j \in 1..Len(kw) : s[i + j - 1] = kw[j]

\* Series.str.contains(variant, case=False) on one value; no variant of the
\* tables holds a regular-expression metacharacter, so the pattern is literal
ContainsNoCase(variant, s) == Contains(lower(variant), lower(s))

Min(S) == CHOOSE x \in S : \A y \in S : x <= y

Max(S) == CHOOSE x \in S : \A y \in S : x >= y

\* sorted(S) for a set of integers
RECURSIVE Sorted(_)
Sorted(S) == IF S = {} THEN << >> ELSE <<Min(S)>> \o Sorted(S \ {Min(S)})

\* the sum of f over the subset S of its domain
RECURSIVE Sum(_, _)
Sum(f, S) ==
  IF S = {} THEN 0
  ELSE LET x == CHOOSE x \in S : TRUE IN f[x] + Sum(f, S \ {x})

\* s.split(sep) for a separator of one character
RECURSIVE split(_, _)
split(s, sep) ==
  IF \A i \in DOMAIN s : s[i] # sep THEN <<s>>
  ELSE LET i == Min({k \in DOMAIN s : s[k] = sep})
       IN  <<SubSeq(s, 1, i - 1)>> \o split(SubSeq(s, i + 1, Len(s)), sep)

\* s.strip(): the white space at both ends removed
RECURSIVE strip(_)
strip(s) ==
  IF s = << >> THEN s
  ELSE IF Head(s) = " " THEN strip(Tail(s))
       ELSE IF s[Len(s)] = " " THEN strip(SubSeq(s, 1, Len(s) - 1))
            ELSE s

\* the characters of the model's strings in increasing code point order
CodePointOrder == <<" ", ";">> \o ascii_uppercase \o ascii_lowercase

ord(c) == CHOOSE i \in DOMAIN CodePointOrder : CodePointOrder[i] = c

\* a < b for two Python strings
RECURSIVE str_less(_, _)
str_less(a, b) ==
  IF b = << >> THEN FALSE
  ELSE IF a = << >> THEN TRUE
       ELSE IF Head(a) = Head(b) THEN str_less(Tail(a), Tail(b))
            ELSE ord(Head(a)) < ord(Head(b))

\* a missing value of a dataframe or of a record
NaN == <<"NaN">>

isna(x) == x = NaN

Unknown == <<"U","n","k","n","o","w","n">>

\* str(x): a missing value prints as "nan"
str(x) == IF isna(x) THEN <<"n","a","n">> ELSE x

(* bigquery_connector.py: the ordered (key, value) table of normalize_company_name *)
dash_company_mapping ==
  <<
    [key |-> <<"A","P","P","L","I","E","D"," ","M","A","T","E","R","I","A","L","S">>,
     value |-> <<"A","p","p","l","i","e","d"," ","M","a","t","e","r","i","a","l","s">>],
    [key |-> <<"T","O","K","Y","O"," ","E","L","E","C","T","R","O","N">>,
     value |-> <<"T","o","k","y","o"," ","E","l","e","c","t","r","o","n">>],
    [key |-> <<"K","Y","O","C","E","R","A">>,
     value |-> <<"K","y","o","c","e","r","a">>],
    [key |-> <<"N","G","K"," ","I","N","S","U","L","A","T","O","R","S">>,
     value |-> <<"N","G","K"," ","I","n","s","u","l","a","t","o","r","s">>],
    [key |-> <<"T","O","T","O">>,
     value |-> <<"T","O","T","O">>],
    [key |-> <<"L","A","M"," ","R","E","S","E","A","R","C","H">>,
     value |-> <<"L","a","m"," ","R","e","s","e","a","r","c","h">>],
    [key |-> <<"E","N","T","E","G","R","I","S">>,
     value |-> <<"E","n","t","e","g","r","i","s">>],
    [key |-> <<"S","H","I","N","K","O"," ","E","L","E","C","T","R","I","C">>,
     value |-> <<"S","h","i","n","k","o"," ","E","l","e","c","t","r","i","c">>],
    [key |-> <<"S","U","M","I","T","O","M","O"," ","O","S","A","K","A"," ","C","E","M","E","N","T">>,
     value |-> <<"S","u","m","i","t","o","m","o"," ","O","s","a","k","a"," ","C","e","m","e","n","t">>],
    [key |-> <<"N","T","K"," ","C","E","R","A","T","E","C">>,
     value |-> <<"N","T","K"," ","C","e","r","a","t","e","c">>],
    [key |-> <<"T","S","U","K","U","B","A"," ","S","E","I","K","O">>,
     value |-> <<"T","s","u","k","u","b","a"," ","S","e","i","k","o">>],
    [key |-> <<"C","R","E","A","T","I","V","E"," ","T","E","C","H","N","O","L","O","G","Y">>,
     value |-> <<"C","r","e","a","t","i","v","e"," ","T","e","c","h","n","o","l","o","g","y">>] >>

(* curved_esc_analyzer.py: company_mapping of normalize_company_names, in dict order *)
company_mapping ==
  <<
    [normalized |-> <<"S","H","I","N","K","O"," ","E","L","E","C","T","R","I","C">>,
     variants |-> <<<<"u65B0","u5149","u96FB","u6C17","u5DE5","u696D">>,
                   <<"S","H","I","N","K","O"," ","E","L","E","C","T","R","I","C"," ","I","N","D","U","S","T","R","I","E","S">>,
                   <<"S","h","i","n","k","o"," ","E","l","e","c","t","r","i","c">>>>],
    [normalized |-> <<"T","O","T","O">>,
     variants |-> <<<<"T","O","T","O">>,
                   <<"T","O","T","O"," ","L","T","D">>,
                   <<"u30C8","u30FC","u30C8","u30FC">>>>],
    [normalized |-> <<"S","U","M","I","T","O","M","O"," ","O","S","A","K","A"," ","C","E","M","E","N","T">>,
     variants |-> <<<<"u4F4F","u53CB","u5927","u962A","u30BB","u30E1","u30F3","u30C8">>,
                   <<"S","U","M","I","T","O","M","O"," ","O","S","A","K","A"," ","C","E","M","E","N","T"," ","C","O">>>>],
    [normalized |-> <<"K","Y","O","C","E","R","A">>,
     variants |-> <<<<"K","y","o","c","e","r","a">>,
                   <<"u4EAC","u30BB","u30E9">>,
                   <<"K","Y","O","C","E","R","A"," ","C","O","R","P","O","R","A","T","I","O","N">>>>],
    [normalized |-> <<"N","G","K"," ","I","N","S","U","L","A","T","O","R","S">>,
     variants |-> <<<<"N","G","K">>,
                   <<"u65E5","u672C","u30AC","u30A4","u30B7">>,
                   <<"N","G","K"," ","I","N","S","U","L","A","T","O","R","S"," ","L","T","D">>>>],
    [normalized |-> <<"N","T","K"," ","C","E","R","A","T","E","C">>,
     variants |-> <<<<"N","T","K"," ","C","E","R","A","T","E","C">>,
                   <<"N","T","K","u30BB","u30E9","u30C6","u30C3","u30AF">>,
                   <<"u65E5","u672C","u7279","u6B8A","u9676","u696D">>,
                   <<"N","G","K"," ","S","P","A","R","K"," ","P","L","U","G">>>>],
    [normalized |-> <<"T","S","U","K","U","B","A"," ","S","E","I","K","O">>,
     variants |-> <<<<"u7B51","u6CE2","u7CBE","u5DE5">>,
                   <<"T","S","U","K","U","B","A"," ","S","E","I","K","O"," ","C","O">>>>],
    [normalized |-> <<"C","R","E","A","T","I","V","E"," ","T","E","C","H","N","O","L","O","G","Y">>,
     variants |-> <<<<"u30AF","u30EA","u30A8","u30A4","u30C6","u30A3","u30D6","u30C6","u30AF","u30CE","u30ED","u30B8","u30FC">>,
                   <<"C","R","E","A","T","I","V","E"," ","T","E","C","H","N","O","L","O","G","Y">>>>],
    [normalized |-> <<"T","O","K","Y","O"," ","E","L","E","C","T","R","O","N">>,
     variants |-> <<<<"T","o","k","y","o"," ","E","l","e","c","t","r","o","n">>,
                   <<"T","E","L">>,
                   <<"T","O","K","Y","O"," ","E","L","E","C","T","R","O","N"," ","L","I","M","I","T","E","D">>,
                   <<"u6771","u4EAC","u30A8","u30EC","u30AF","u30C8","u30ED","u30F3">>>>],
    [normalized |-> <<"A","P","P","L","I","E","D"," ","M","A","T","E","R","I","A","L","S">>,
     variants |-> <<<<"A","p","p","l","i","e","d"," ","M","a","t","e","r","i","a","l","s">>,
                   <<"A","M","A","T">>,
                   <<"A","P","P","L","I","E","D"," ","M","A","T","E","R","I","A","L","S"," ","I","N","C">>>>],
    [normalized |-> <<"L","A","M"," ","R","E","S","E","A","R","C","H">>,
     variants |-> <<<<"L","a","m"," ","R","e","s","e","a","r","c","h">>,
                   <<"L","A","M"," ","R","E","S","E","A","R","C","H"," ","C","O","R","P","O","R","A","T","I","O","N">>>>],
    [normalized |-> <<"E","N","T","E","G","R","I","S">>,
     variants |-> <<<<"E","n","t","e","g","r","i","s">>,
                   <<"E","N","T","E","G","R","I","S"," ","I","N","C">>>>],
    [normalized |-> <<"F","M"," ","I","N","D","U","S","T","R","I","E","S">>,
     variants |-> <<<<"F","M"," ","I","n","d","u","s","t","r","i","e","s">>,
                   <<"F","M"," ","I","N","D","U","S","T","R","I","E","S"," ","I","N","C">>>>],
    [normalized |-> <<"M","I","C","O">>,
     variants |-> <<<<"M","i","C","o">>,
                   <<"M","I","C","O"," ","C","E","R","A","M","I","C","S">>,
                   <<"M","I","C","O"," ","C","O">>>>],
    [normalized |-> <<"S","E","M","C","O"," ","E","N","G","I","N","E","E","R","I","N","G">>,
     variants |-> <<<<"S","E","M","C","O"," ","E","n","g","i","n","e","e","r","i","n","g">>,
                   <<"S","E","M","C","O"," ","E","N","G","I","N","E","E","R","I","N","G"," ","S","A","S">>>>],
    [normalized |-> <<"C","A","L","I","T","E","C","H">>,
     variants |-> <<<<"C","a","l","i","t","e","c","h">>,
                   <<"C","A","L","I","T","E","C","H"," ","C","O">>>>],
    [normalized |-> <<"B","E","I","J","I","N","G"," ","U","-","P","R","E","C","I","S","I","O","N">>,
     variants |-> <<<<"B","e","i","j","i","n","g"," ","U","-","P","r","e","c","i","s","i","o","n">>,
                   <<"U","-","P","R","E","C","I","S","I","O","N"," ","T","E","C","H">>,
                   <<"B","E","I","J","I","N","G"," ","U","-","P","R","E","C","I","S","I","O","N"," ","T","E","C","H">>>>],
    [normalized |-> <<"K","L","A">>,
     variants |-> <<<<"K","L","A","-","T","e","n","c","o","r">>,
                   <<"K","L","A"," ","C","O","R","P","O","R","A","T","I","O","N">>>>],
    [normalized |-> <<"H","I","T","A","C","H","I"," ","H","I","G","H","-","T","E","C","H">>,
     variants |-> <<<<"H","i","t","a","c","h","i"," ","H","i","g","h","-","T","e","c","h">>,
                   <<"u65E5","u7ACB","u30CF","u30A4","u30C6","u30AF">>>>],
    [normalized |-> <<"S","C","R","E","E","N">>,
     variants |-> <<<<"S","C","R","E","E","N"," ","H","o","l","d","i","n","g","s">>,
                   <<"S","C","R","E","E","N"," ","S","E","M","I","C","O","N","D","U","C","T","O","R">>>>],
    [normalized |-> <<"A","S","M","L">>,
     variants |-> <<<<"A","S","M","L"," ","N","E","T","H","E","R","L","A","N","D","S">>,
                   <<"A","S","M","L"," ","H","O","L","D","I","N","G">>>>] >>

university_keywords ==
  <<
    <<"U","N","I","V","E","R","S","I","T","Y">>,
    <<"U","N","I","V">>,
    <<"C","O","L","L","E","G","E">>,
    <<"I","N","S","T","I","T","U","T","E"," ","O","F"," ","T","E","C","H","N","O","L","O","G","Y">>,
    <<"T","E","C","H"," ","U","N","I","V","E","R","S","I","T","Y">>,
    <<"S","T","A","T","E"," ","U","N","I","V","E","R","S","I","T","Y">>,
    <<"N","A","T","I","O","N","A","L"," ","U","N","I","V","E","R","S","I","T","Y">>,
    <<"u5927","u5B66">>,
    <<"u5DE5","u696D","u5927","u5B66">>,
    <<"u6280","u8853","u5927","u5B66">>,
    <<"u79D1","u5B66","u6280","u8853","u5927","u5B66">>,
    <<"K","A","I","S","T">>,
    <<"P","O","S","T","E","C","H">> >>

research_keywords ==
  <<
    <<"R","E","S","E","A","R","C","H">>,
    <<"I","N","S","T","I","T","U","T","E">>,
    <<"L","A","B","O","R","A","T","O","R","Y">>,
    <<"L","A","B">>,
    <<"C","E","N","T","E","R">>,
    <<"F","O","U","N","D","A","T","I","O","N">>,
    <<"A","G","E","N","C","Y">>,
    <<"O","R","G","A","N","I","Z","A","T","I","O","N">>,
    <<"C","O","U","N","C","I","L">>,
    <<"u7814","u7A76","u6240">>,
    <<"u7814","u7A76","u6A5F","u69CB">>,
    <<"u7814","u7A76","u30BB","u30F3","u30BF","u30FC">>,
    <<"u6280","u8853","u7814","u7A76","u7D44","u5408">>,
    <<"u7523","u7DCF","u7814">>,
    <<"A","I","S","T">> >>

(* advanced_analyzer.py: tech_categories of technology_trend_analysis *)
tech_categories ==
  <<
    [category |-> "Material",
     keywords |-> <<<<"c","e","r","a","m","i","c">>,
                   <<"d","i","e","l","e","c","t","r","i","c">>,
                   <<"c","o","a","t","i","n","g">>,
                   <<"p","o","l","y","m","e","r">>,
                   <<"s","i","l","i","c","o","n">>,
                   <<"u30BB","u30E9","u30DF","u30C3","u30AF">>,
                   <<"u8A98","u96FB","u4F53">>>>],
    [category |-> "Control",
     keywords |-> <<<<"t","e","m","p","e","r","a","t","u","r","e">>,
                   <<"t","h","e","r","m","a","l">>,
                   <<"c","o","n","t","r","o","l">>,
                   <<"f","e","e","d","b","a","c","k">>,
                   <<"s","e","n","s","o","r">>,
                   <<"u6E29","u5EA6","u5236","u5FA1">>,
                   <<"u5236","u5FA1">>>>],
    [category |-> "Structure",
     keywords |-> <<<<"e","l","e","c","t","r","o","d","e">>,
                   <<"c","h","u","c","k">>,
                   <<"c","l","a","m","p">>,
                   <<"s","u","r","f","a","c","e">>,
                   <<"g","e","o","m","e","t","r","y">>,
                   <<"u96FB","u6975">>,
                   <<"u30C1","u30E3","u30C3","u30AF">>>>],
    [category |-> "Process",
     keywords |-> <<<<"p","l","a","s","m","a">>,
                   <<"e","t","c","h","i","n","g">>,
                   <<"d","e","p","o","s","i","t","i","o","n">>,
                   <<"C","V","D">>,
                   <<"s","p","u","t","t","e","r","i","n","g">>,
                   <<"u30D7","u30E9","u30BA","u30DE">>,
                   <<"u30A8","u30C3","u30C1","u30F3","u30B0">>>>],
    [category |-> "Measurement",
     keywords |-> <<<<"m","o","n","i","t","o","r","i","n","g">>,
                   <<"d","e","t","e","c","t","i","o","n">>,
                   <<"m","e","a","s","u","r","e","m","e","n","t">>,
                   <<"s","e","n","s","i","n","g">>,
                   <<"u6E2C","u5B9A">>,
                   <<"u30E2","u30CB","u30BF","u30EA","u30F3","u30B0">>>>] >>

(* target_company_analyzer.py: tech_keywords of technology_focus_analysis *)
focus_tech_keywords ==
  <<
    [category |-> "Temperature Control",
     keywords |-> <<<<"t","e","m","p","e","r","a","t","u","r","e">>,
                   <<"t","h","e","r","m","a","l">>,
                   <<"h","e","a","t","i","n","g">>,
                   <<"c","o","o","l","i","n","g">>,
                   <<"u6E29","u5EA6">>,
                   <<"u52A0","u71B1">>>>],
    [category |-> "Curved/Flexible",
     keywords |-> <<<<"c","u","r","v","e","d">>,
                   <<"f","l","e","x","i","b","l","e">>,
                   <<"b","e","n","d","a","b","l","e">>,
                   <<"c","o","n","f","o","r","m","a","l">>,
                   <<"u66F2","u9762">>,
                   <<"u6E7E","u66F2">>,
                   <<"u53EF","u6493">>>>],
    [category |-> "Material/Ceramic",
     keywords |-> <<<<"c","e","r","a","m","i","c">>,
                   <<"d","i","e","l","e","c","t","r","i","c">>,
                   <<"m","a","t","e","r","i","a","l">>,
                   <<"c","o","a","t","i","n","g">>,
                   <<"u30BB","u30E9","u30DF","u30C3","u30AF">>,
                   <<"u8A98","u96FB","u4F53">>>>],
    [category |-> "Process Control",
     keywords |-> <<<<"p","l","a","s","m","a">>,
                   <<"e","t","c","h","i","n","g">>,
                   <<"d","e","p","o","s","i","t","i","o","n">>,
                   <<"p","r","o","c","e","s","s">>,
                   <<"u30D7","u30E9","u30BA","u30DE">>,
                   <<"u30A8","u30C3","u30C1","u30F3","u30B0">>>>],
    [category |-> "Sensor/Monitor",
     keywords |-> <<<<"s","e","n","s","o","r">>,
                   <<"m","o","n","i","t","o","r","i","n","g">>,
                   <<"d","e","t","e","c","t","i","o","n">>,
                   <<"m","e","a","s","u","r","e","m","e","n","t">>,
                   <<"u30BB","u30F3","u30B5">>,
                   <<"u76E3","u8996">>>>],
    [category |-> "Mechanical",
     keywords |-> <<<<"c","l","a","m","p">>,
                   <<"c","h","u","c","k">>,
                   <<"e","l","e","c","t","r","o","d","e">>,
                   <<"s","t","r","u","c","t","u","r","e">>,
                   <<"u30C1","u30E3","u30C3","u30AF">>,
                   <<"u96FB","u6975">>>>] >>

(* streamlit_app.py: tech_keywords of show_technology_trends *)
tech_keywords ==
  <<
    [category |-> "Curved ESC",
     keywords |-> <<<<"c","u","r","v","e","d">>,
                   <<"c","u","r","v","a","t","u","r","e">>,
                   <<"b","e","n","d">>,
                   <<"f","l","e","x","i","b","l","e">>,
                   <<"c","o","n","f","o","r","m","a","l">>>>],
    [category |-> "Wafer Distortion",
     keywords |-> <<<<"d","i","s","t","o","r","t","i","o","n">>,
                   <<"w","a","r","p","a","g","e">>,
                   <<"d","e","f","o","r","m","a","t","i","o","n">>,
                   <<"b","o","w">>,
                   <<"s","t","r","e","s","s">>>>],
    [category |-> "Temperature Control",
     keywords |-> <<<<"t","e","m","p","e","r","a","t","u","r","e">>,
                   <<"t","h","e","r","m","a","l">>,
                   <<"h","e","a","t","i","n","g">>,
                   <<"c","o","o","l","i","n","g">>,
                   <<"h","e","a","t">>>>],
    [category |-> "RF Technology",
     keywords |-> <<<<"R","F">>,
                   <<"r","a","d","i","o"," ","f","r","e","q","u","e","n","c","y">>,
                   <<"p","l","a","s","m","a">>,
                   <<"i","o","n">>,
                   <<"R","F"," ","p","o","w","e","r">>>>],
    [category |-> "Materials Science",
     keywords |-> <<<<"c","e","r","a","m","i","c">>,
                   <<"s","i","l","i","c","o","n">>,
                   <<"p","o","l","y","m","e","r">>,
                   <<"c","o","m","p","o","s","i","t","e">>,
                   <<"d","i","e","l","e","c","t","r","i","c">>>>],
    [category |-> "Vacuum Technology",
     keywords |-> <<<<"v","a","c","u","u","m">>,
                   <<"p","r","e","s","s","u","r","e">>,
                   <<"c","h","a","m","b","e","r">>,
                   <<"p","u","m","p","i","n","g">>,
                   <<"a","t","m","o","s","p","h","e","r","e">>>>],
    [category |-> "Surface Technology",
     keywords |-> <<<<"s","u","r","f","a","c","e">>,
                   <<"c","o","a","t","i","n","g">>,
                   <<"l","a","y","e","r">>,
                   <<"f","i","l","m">>,
                   <<"i","n","t","e","r","f","a","c","e">>>>] >>

(* ------------------------------ the inputs ------------------------------ *)
\* pieces of raw assignee strings: company names in several spellings, type
\* words, filler
AssigneeFragments ==
  { <<"K","y","o","c","e","r","a">>,
    <<"K","Y","O","C","E","R","A"," ","C","O","R","P","O","R","A","T","I","O","N">>,
    <<"T","O","T","O">>,
    <<"T","o","k","y","o"," ","E","l","e","c","t","r","o","n">>,
    <<"N","G","K"," ","S","p","a","r","k"," ","P","l","u","g">>,
    <<"A","p","p","l","i","e","d"," ","M","a","t","e","r","i","a","l","s">>,
    <<"L","a","m"," ","R","e","s","e","a","r","c","h">>,
    <<"i","n","t","e","l">>,
    <<"S","h","i","n","k","o"," ","E","l","e","c","t","r","i","c">>,
    <<"u4EAC","u30BB","u30E9">>,
    <<" ","U","n","i","v","e","r","s","i","t","y">>,
    <<" ","I","n","s","t","i","t","u","t","e"," ","o","f"," ","T","e","c","h","n","o","l","o","g","y">>,
    <<" ","R","e","s","e","a","r","c","h"," ","I","n","s","t","i","t","u","t","e">>,
    <<" ","L","a","b">>,
    <<" ","u5927","u5B66">>,
    <<" ","C","o","r","p">>,
    <<" ">>,
    <<"a","c","m","e">> }

RECURSIVE FragmentStrings(_)
FragmentStrings(n) ==
  IF n = 0 THEN {<< >>}
  ELSE LET shorter == FragmentStrings(n - 1)
       IN  shorter \cup {s \o f : s \in shorter, f \in AssigneeFragments}

\* the raw assignee values of a fetched record: missing, empty, or text
AssigneeInputs == {NaN} \cup FragmentStrings(MaxFragments)

(* ------------------------------- the state ------------------------------ *)
VARIABLES
  df,                     \* the dataframe: a sequence of rows
  pc,                     \* where each script is
  tech_trends,            \* advanced_analyzer: category -> year -> count
  company_tech_scores,    \* target_company_analyzer: (company, area) -> count
  yearly_tech_trends,     \* streamlit_app: the rows of trend_df, by year
  growth_rates,           \* streamlit_app: technology -> growth rate
  total_growth,           \* streamlit_app: the total growth of the timeline
  collaboration_patents,  \* advanced_analyzer: the co-filed patents
  collaboration_pairs,    \* advanced_analyzer: Counter of sorted pairs
  divided_by_zero,        \* a division by zero has been executed
  company_ranking,        \* curved_esc_analyzer: value_counts().head(20) of the canonical names
  yearly_trend,           \* curved_esc_analyzer: the records per filing year
  academic_rankings,      \* advanced_analyzer: the university and the research ranking
  timeline_df,            \* target_company_analyzer: the important patents by company
  global_companies,       \* target_company_analyzer: the global-expansion ranking
  all_data,               \* patent_cloud_collector: the records downloaded from the drive
  org_stats,              \* advanced_analyzer: the records and the share of each org_type
  comparison_df,          \* streamlit_app: the metrics of the top companies
  radar,                  \* streamlit_app: the normalised metrics of the top five companies
  collection,             \* patent_cloud_collector: the summary of a collection run
  company_counts,         \* bigquery_connector: the company ranking of the overview
  all_patents,            \* dual_patent_connector: the records gathered by search_patents_api
  request,                \* dual_patent_connector: the arguments of search_esc_patents and the queries done
  drive,                  \* patent_cloud_collector: the files of the Drive folder, in the order of their creation
  saved,                  \* patent_cloud_collector: the last call of save_to_google_drive
  emerging_keywords       \* advanced_analyzer: what emerging_technology_detection returned

\* the results of the other operations
aggregates ==
  <<company_ranking, yearly_trend, academic_rankings, timeline_df,
    global_companies, all_data, org_stats, comparison_df,
    radar, collection, company_counts, all_patents,
    request, drive, saved, emerging_keywords>>

\* the results of the technology, co-filing and growth analyses
analyses ==
  <<tech_trends, company_tech_scores, yearly_tech_trends, growth_rates, total_growth,
    collaboration_patents, collaboration_pairs, divided_by_zero>>

results == <<analyses, aggregates>>

vars == <<df, pc, results>>

\* a missing date; a date is modelled by its year
NaT == 0

\* a row as the record source delivers it; derived columns are not yet set
Row(publication_number, assignee, title, abstract, filing_date, country_code) ==
  [publication_number |-> publication_number, assignee |-> assignee, title |-> title,
   abstract |-> abstract, filing_date |-> filing_date, country_code |-> country_code,
   normalized_assignee |-> NaN, org_type |-> "", company_normalized |-> NaN,
   inventors |-> << >>]

\* a fetched record of which only the assignee is of interest
AssigneeRow(assignee) == Row(1, assignee, NaN, NaN, NaT, NaN)

\* the publication numbers of a dataframe are its row numbers
Numbered(rows) == [i \in DOMAIN rows |-> [rows[i] EXCEPT !.publication_number = i]]

\* the sequences of at most n elements of S
RECURSIVE SeqsUpTo(_, _)
SeqsUpTo(S, n) ==
  IF n = 0 THEN {<< >>}
  ELSE LET shorter == SeqsUpTo(S, n - 1)
       IN  shorter \cup {Append(s, x) : s \in shorter, x \in S}

\* the year column: pd.to_datetime(df['filing_date']).dt.year
filing_year(row) == row.filing_date

\* sorted(df['filing_year'].dropna().unique())
available_years(rows) == Sorted({filing_year(rows[i]) : i \in DOMAIN rows} \ {NaT})

\* the yearly count filled with zeros from the first to the last year
yearly_counts_filled(rows) ==
  LET years == {filing_year(rows[i]) : i \in DOMAIN rows} \ {NaT}
  IN  IF years = {} THEN << >>
      ELSE [y \in 1..(Max(years) - Min(years) + 1) |->
              [year |-> Min(years) + y - 1,
               size |-> Cardinality({i \in DOMAIN rows :
                                       filing_year(rows[i]) = Min(years) + y - 1})]]

\* filtered_df.groupby('filing_year').size(): the years present, ascending
yearly_counts_of(rows) ==
  LET years == available_years(rows)
  IN  [y \in DOMAIN years |->
         [year |-> years[y],
          size |-> Cardinality({i \in DOMAIN rows : filing_year(rows[i]) = years[y]})]]

(* --------------------- bigquery_connector.py dashboard ------------------- *)
\* the loop without its early return: the last key found in the name wins
RECURSIVE dash_lookup_last_match(_, _)
dash_lookup_last_match(name, k) ==
  IF k > Len(dash_company_mapping) THEN str_title(name)
  ELSE IF \E l \in (k + 1)..Len(dash_company_mapping) :
             Contains(dash_company_mapping[l].key, name)
       THEN dash_lookup_last_match(name, k + 1)
       ELSE IF Contains(dash_company_mapping[k].key, name)
            THEN dash_company_mapping[k].value
            ELSE str_title(name)

\* for key, value in company_mapping.items(): if key in name: return value
RECURSIVE dash_lookup(_, _)
dash_lookup(name, k) ==
  IF k > Len(dash_company_mapping) THEN str_title(name)
  ELSE IF Contains(dash_company_mapping[k].key, name)
       THEN dash_company_mapping[k].value
       ELSE dash_lookup(name, k + 1)

\* the lookup without a name for the missing value
normalize_company_name_missing_kept(name) ==
  IF isna(name) THEN name ELSE dash_lookup(upper(str(name)), 1)

\* the lookup on the name as it is written, not upper-cased
normalize_company_name_cased(name) ==
  IF isna(name) THEN Unknown ELSE dash_lookup(str(name), 1)

normalize_company_name(name) ==
  IF isna(name) THEN Unknown ELSE dash_lookup(upper(str(name)), 1)

\* df['company_normalized'] = df['assignee'].apply(normalize_company_name)
DashNormalize ==
  /\ pc.dashboard = "loaded"
  /\ df' = [i \in DOMAIN df |->
              [df[i] EXCEPT !.company_normalized = normalize_company_name(df[i].assignee)]]
  /\ pc' = [pc EXCEPT !.dashboard = "normalized"]
  /\ UNCHANGED results

(* ------------------------- curved_esc_analyzer.py ------------------------ *)
\* mask = col.str.contains(variant, case=False, na=False); col[mask] = normalized
apply_variant(col, variant, normalized) ==
  Tuple([i \in DOMAIN col |->
           IF ~isna(col[i]) /\ ContainsNoCase(variant, col[i]) THEN normalized ELSE col[i]])

\* for variant in variants: the column is rewritten once per variant (the test
\* of Len makes the rewritten column a value before the loop goes on)
RECURSIVE apply_variants(_, _, _)
apply_variants(col, entry, v) ==
  IF v > Len(entry.variants) THEN col
  ELSE LET rewritten == apply_variant(col, entry.variants[v], entry.normalized)
       IN  IF Len(rewritten) = Len(col) THEN apply_variants(rewritten, entry, v + 1) ELSE col

\* for normalized, variants in company_mapping.items()
RECURSIVE apply_mapping(_, _)
apply_mapping(col, e) ==
  IF e > Len(company_mapping) THEN col
  ELSE LET rewritten == apply_variants(col, company_mapping[e], 1)
       IN  IF Len(rewritten) = Len(col) THEN apply_mapping(rewritten, e + 1) ELSE col

fillna(col, value) == Tuple([i \in DOMAIN col |-> IF isna(col[i]) THEN value ELSE col[i]])

normalize_company_names(assignee_col) == apply_mapping(fillna(assignee_col, Unknown), 1)

\* run_analysis: the step after the fetch, taken when records were fetched
NormalizeCompanyNames ==
  /\ pc.curved = "fetched"
  /\ df # << >>
  /\ LET col == normalize_company_names([i \in DOMAIN df |-> df[i].assignee])
     IN  df' = [i \in DOMAIN df |-> [df[i] EXCEPT !.normalized_assignee = col[i]]]
  /\ pc' = [pc EXCEPT !.curved = "normalized"]
  /\ UNCHANGED results

\* a filing date that pd.to_datetime cannot parse
BadDate == -1

\* pd.to_datetime(x): a missing value gives NaT, a date its value; a value
\* that is no date raises (Raised) unless errors='coerce' turns it into NaT
Raised == -2

to_datetime(x) == IF x = BadDate THEN Raised ELSE x

to_datetime_coerce(x) == IF x = BadDate THEN NaT ELSE x

\* Series.unique() without the missing values: in order of first appearance
RECURSIVE unique(_)
unique(col) ==
  IF col = << >> THEN << >>
  ELSE LET rest == unique(SubSeq(col, 1, Len(col) - 1))
           x == col[Len(col)]
       IN  IF isna(x) \/ \E k \in DOMAIN rest : rest[k] = x THEN rest ELSE Append(rest, x)

\* the entries by descending count, equal counts in the order they have
RECURSIVE sort_by_count(_)
sort_by_count(entries) ==
  IF entries = << >> THEN << >>
  ELSE LET top == Max({entries[i].count : i \in DOMAIN entries})
           k == Min({i \in DOMAIN entries : entries[i].count = top})
       IN  <<entries[k]>> \o
           sort_by_count(SubSeq(entries, 1, k - 1) \o SubSeq(entries, k + 1, Len(entries)))

\* Series.value_counts(): one entry per value, by descending count; values
\* of equal count stay in their order of first appearance
value_counts(col) ==
  LET values == unique(col)
  IN  sort_by_count([k \in DOMAIN values |->
                       [value |-> values[k],
                        count |-> Cardinality({i \in DOMAIN col : col[i] = values[k]})]])

\* Series.head(n)
head(s, n) == SubSeq(s, 1, IF Len(s) < n THEN Len(s) ELSE n)

\* .head(20) of the company ranking
RankingSize == 20

\* analyze_data: the company ranking and the yearly trend.  The ranking of no
\* record has no first entry (index[0]) and a filing date that is no date
\* stops pd.to_datetime: the exception ends run_analysis
AnalyzeData ==
  /\ pc.curved = "normalized"
  /\ IF df = << >> \/ \E i \in DOMAIN df : to_datetime(df[i].filing_date) = Raised
     THEN /\ pc' = [pc EXCEPT !.curved = "raised"]
          /\ UNCHANGED <<company_ranking, yearly_trend>>
     ELSE /\ pc' = [pc EXCEPT !.curved = "analyzed"]
          /\ company_ranking' =
               head(value_counts([i \in DOMAIN df |-> df[i].normalized_assignee]), RankingSize)
          /\ yearly_trend' = yearly_counts_of(df)
  /\ UNCHANGED <<df, analyses, academic_rankings, timeline_df, global_companies,
                all_data, org_stats, comparison_df, radar, collection, company_counts,
                all_patents, request, drive, saved, emerging_keywords>>

\* save_results writes the dataframe to curved_esc_patents.csv and
\* AdvancedPatentAnalyzer.__init__ reads it back: an empty field is read as missing
read_csv_value(x) == IF x = << >> THEN NaN ELSE x

ReadCsv ==
  /\ pc.curved = "analyzed"
  /\ pc.advanced = "start"
  /\ df' = [i \in DOMAIN df |->
              [df[i] EXCEPT !.assignee = read_csv_value(@),
                            !.title = read_csv_value(@),
                            !.abstract = read_csv_value(@),
                            !.country_code = read_csv_value(@),
                            !.normalized_assignee = read_csv_value(@)]]
  /\ pc' = [pc EXCEPT !.curved = "saved", !.advanced = "loaded", !.target = "loaded"]
  /\ UNCHANGED results

(* --------------------------- advanced_analyzer.py ------------------------ *)
\* the two keyword scans in the other order
classify_org_research_first(assignee) ==
  IF isna(assignee) THEN "Unknown"
  ELSE LET assignee_upper == upper(assignee)
       IN  IF \E k \in DOMAIN research_keywords :
                 Contains(research_keywords[k], assignee_upper)
           THEN "Research Institute"
           ELSE IF \E k \in DOMAIN university_keywords :
                      Contains(university_keywords[k], assignee_upper)
                THEN "University"
                ELSE "Company"

classify_org(assignee) ==
  IF isna(assignee) THEN "Unknown"
  ELSE LET assignee_upper == upper(assignee)
       IN  IF \E k \in DOMAIN university_keywords :
                 Contains(university_keywords[k], assignee_upper)
           THEN "University"
           ELSE IF \E k \in DOMAIN research_keywords :
                      Contains(research_keywords[k], assignee_upper)
                THEN "Research Institute"
                ELSE "Company"

\* the classification applied to the raw column
org_type_source_raw(row) == row.assignee

\* self.df['org_type'] = self.df['normalized_assignee'].apply(classify_org)
org_type_source(row) == row.normalized_assignee

\* a float: a fraction num / den, or nan
float(num, den) == [nan |-> FALSE, num |-> num, den |-> den]

nan == [nan |-> TRUE, num |-> 0, den |-> 1]

\* the divisions of two numbers that were executed with divisor 0
zero_divisors(floats) == {f \in floats : ~f.nan /\ f.den = 0}

\* org_stats = df['org_type'].value_counts() and, for each entry, the
\* percentage count / len(df) * 100
org_stats_of(org_types) ==
  LET counts == value_counts([i \in DOMAIN org_types |-> <<org_types[i]>>])
  IN  [k \in DOMAIN counts |->
         [org_type |-> counts[k].value[1], count |-> counts[k].count,
          percentage |-> float(counts[k].count * 100, Len(org_types))]]

ClassifyOrganizations ==
  /\ pc.advanced = "loaded"
  /\ df' = [i \in DOMAIN df |-> [df[i] EXCEPT !.org_type = classify_org(org_type_source(df[i]))]]
  /\ org_stats' = org_stats_of([i \in DOMAIN df |-> classify_org(org_type_source(df[i]))])
  /\ divided_by_zero' =
       (divided_by_zero \/ zero_divisors({org_stats'[k].percentage : k \in DOMAIN org_stats'}) # {})
  /\ pc' = [pc EXCEPT !.advanced = "classified"]
  /\ UNCHANGED <<company_ranking, yearly_trend, academic_rankings, timeline_df,
                global_companies, all_data, comparison_df, radar, collection,
                company_counts, all_patents, request, drive, saved, emerging_keywords>>
  /\ UNCHANGED <<tech_trends, company_tech_scores, yearly_tech_trends, growth_rates, total_growth,
                 collaboration_patents, collaboration_pairs>>

\* text = str(row['title']) + ' ' + str(row['abstract'])
record_text(row) == str(row.title) \o <<" ">> \o str(row.abstract)

\* the keywords of a list that occur in a text as they are written
keyword_hits_cased(keywords, text) ==
  {k \in DOMAIN keywords : Contains(keywords[k], text)}

\* the keywords of a list that occur in a text, both in lower case
keyword_hits(keywords, text) ==
  {k \in DOMAIN keywords : Contains(lower(keywords[k]), lower(text))}

\* the keyword loop without its break: every keyword found counts
record_count_no_break(keywords, text) == Cardinality(keyword_hits(keywords, text))

\* for keyword in keywords: if keyword.lower() in text.lower(): count += 1; break
record_count(keywords, text) == IF keyword_hits(keywords, text) # {} THEN 1 ELSE 0

\* the count of one category over the rows of a set
category_count(keywords, rows) ==
  Sum([i \in rows |-> record_count(keywords, record_text(df[i]))], rows)

\* for year in range(2015, 2025)
TrendFirstYear == 2015

TrendLastYear == 2024

\* the normalized_assignee column of the rows of one org_type
names_of_type(rows, org_type) ==
  LET kept == SelectSeq(rows, LAMBDA r : r.org_type = org_type)
  IN  [k \in DOMAIN kept |-> kept[k].normalized_assignee]

\* university_ranking_analysis: two empty tables when no record is academic
UniversityRankingAnalysis ==
  /\ pc.advanced = "classified"
  /\ academic_rankings' =
       IF \A i \in DOMAIN df : df[i].org_type \notin {"University", "Research Institute"}
       THEN [university |-> << >>, research |-> << >>]
       ELSE [university |-> value_counts(names_of_type(df, "University")),
             research |-> value_counts(names_of_type(df, "Research Institute"))]
  /\ pc' = [pc EXCEPT !.advanced = "ranked"]
  /\ UNCHANGED <<df, analyses, company_ranking, yearly_trend, timeline_df,
                global_companies, all_data, org_stats, comparison_df, radar,
                collection, company_counts, all_patents, request, drive, saved,
                emerging_keywords>>

technology_trend_analysis ==
  [c \in DOMAIN tech_categories |->
     [category |-> tech_categories[c].category,
      yearly_counts |->
        [year \in TrendFirstYear..TrendLastYear |->
           category_count(tech_categories[c].keywords,
                          {i \in DOMAIN df : filing_year(df[i]) = year})]]]

\* a filing date that is no date stops pd.to_datetime (line 112)
TechnologyTrendAnalysis ==
  /\ pc.advanced = "ranked"
  /\ IF \E i \in DOMAIN df : to_datetime(df[i].filing_date) = Raised
     THEN /\ pc' = [pc EXCEPT !.advanced = "raised"]
          /\ UNCHANGED tech_trends
     ELSE /\ pc' = [pc EXCEPT !.advanced = "trend"]
          /\ tech_trends' = technology_trend_analysis
  /\ UNCHANGED <<df, company_tech_scores, yearly_tech_trends, growth_rates, total_growth,
                 collaboration_patents, collaboration_pairs, divided_by_zero>>
  /\ UNCHANGED aggregates

\* [a.strip() for a in str(row['assignee']).split(';')]
split_assignees(assignee) ==
  LET parts == split(str(assignee), ";")
  IN  [k \in DOMAIN parts |-> strip(parts[k])]

\* the rows kept: the assignee is present, holds a ';' and splits in two or more
is_collaboration(row) ==
  /\ ~isna(row.assignee)
  /\ Contains(<<";">>, str(row.assignee))
  /\ Len(split_assignees(row.assignee)) > 1

\* collaboration_patents.append({...}) for the rows kept, in row order
collaboration_patents_of(rows) ==
  LET kept == SelectSeq(rows, is_collaboration)
  IN  [p \in DOMAIN kept |->
         [patent_id |-> kept[p].publication_number,
          assignees |-> split_assignees(kept[p].assignee),
          filing_year |-> filing_year(kept[p])]]

\* the pair key in listing order, not sorted
pair_unsorted(a, b) == <<a, b>>

\* tuple(sorted([assignees[i], assignees[j]]))
pair(a, b) == IF str_less(b, a) THEN <<b, a>> ELSE <<a, b>>

\* every (patent, i, j) with i < j of the two loops
pair_positions(patents) ==
  UNION {{<<p, i, j>> : i \in 1..(j - 1)} :
           <<p, j>> \in UNION {{<<q, k>> : k \in DOMAIN patents[q].assignees} : q \in DOMAIN patents}}

\* collaboration_pairs[pair] += 1 over the two loops: a Counter
collaboration_pairs_of(patents) ==
  LET key(x) == pair(patents[x[1]].assignees[x[2]], patents[x[1]].assignees[x[3]])
      positions == pair_positions(patents)
  IN  [k \in {key(x) : x \in positions} |->
         Cardinality({x \in positions : key(x) = k})]

CollaborationNetworkAnalysis ==
  /\ pc.advanced = "trend"
  /\ collaboration_patents' = collaboration_patents_of(df)
  /\ collaboration_pairs' = collaboration_pairs_of(collaboration_patents_of(df))
  /\ pc' = [pc EXCEPT !.advanced = "collab"]
  /\ UNCHANGED <<df, tech_trends, company_tech_scores, yearly_tech_trends, growth_rates,
                 total_growth, divided_by_zero>>
  /\ UNCHANGED aggregates

(* ------------------------ target_company_analyzer.py --------------------- *)
\* the keys of target_companies, Japanese then International
all_targets ==
  <<
    <<"S","H","I","N","K","O"," ","E","L","E","C","T","R","I","C">>,
    <<"T","O","T","O">>,
    <<"S","U","M","I","T","O","M","O"," ","O","S","A","K","A"," ","C","E","M","E","N","T">>,
    <<"K","Y","O","C","E","R","A">>,
    <<"N","G","K"," ","I","N","S","U","L","A","T","O","R","S">>,
    <<"N","T","K"," ","C","E","R","A","T","E","C">>,
    <<"T","S","U","K","U","B","A"," ","S","E","I","K","O">>,
    <<"C","R","E","A","T","I","V","E"," ","T","E","C","H","N","O","L","O","G","Y">>,
    <<"T","O","K","Y","O"," ","E","L","E","C","T","R","O","N">>,
    <<"A","P","P","L","I","E","D"," ","M","A","T","E","R","I","A","L","S">>,
    <<"L","A","M"," ","R","E","S","E","A","R","C","H">>,
    <<"E","N","T","E","G","R","I","S">>,
    <<"F","M"," ","I","N","D","U","S","T","R","I","E","S">>,
    <<"M","I","C","O">>,
    <<"S","E","M","C","O"," ","E","N","G","I","N","E","E","R","I","N","G">>,
    <<"C","A","L","I","T","E","C","H">>,
    <<"B","E","I","J","I","N","G"," ","U","-","P","R","E","C","I","S","I","O","N">> >>

\* target_patents = df[df['normalized_assignee'].isin(all_targets)]
target_patents ==
  {i \in DOMAIN df : \E k \in DOMAIN all_targets : df[i].normalized_assignee = all_targets[k]}

\* company_tech_scores[company][tech_area] += 1, once per patent and area
technology_focus_analysis ==
  LET score(company, a) ==
        category_count(focus_tech_keywords[a].keywords,
                       {i \in target_patents : df[i].normalized_assignee = company})
      touched == {<<df[i].normalized_assignee, a>> : i \in target_patents,
                                                      a \in DOMAIN focus_tech_keywords}
  IN  [key \in {k \in touched : score(k[1], k[2]) > 0} |-> score(key[1], key[2])]

\* run_target_analysis stops when no record is of a target company
TechnologyFocusAnalysis ==
  /\ pc.target = "loaded"
  /\ IF target_patents = {}
     THEN /\ pc' = [pc EXCEPT !.target = "done"]
          /\ UNCHANGED company_tech_scores
     ELSE /\ pc' = [pc EXCEPT !.target = "focus"]
          /\ company_tech_scores' = technology_focus_analysis
  /\ UNCHANGED <<df, tech_trends, yearly_tech_trends, growth_rates, total_growth,
                 collaboration_patents, collaboration_pairs, divided_by_zero>>
  /\ UNCHANGED aggregates

(* ------------------------------ streamlit_app.py ------------------------- *)
\* the characters of the model's texts that the pattern \w does not match
NonWordChars == {" ", ";", ",", ".", "-", "(", ")", "/"}

is_word(c) == c \notin NonWordChars

\* \b before position p of the text (p = Len + 1: at its end)
word_boundary(text, p) ==
  (p > 1 /\ is_word(text[p - 1])) # (p <= Len(text) /\ is_word(text[p]))

\* r'\b' + keyword + r'\b' matches at position i, ignoring case
match_at(keyword, text, i) ==
  /\ i + Len(keyword) - 1 <= Len(text)
  /\ word_boundary(text, i)
  /\ \A j \in 1..Len(keyword) : lower_char(text[i + j - 1]) = lower_char(keyword[j])
  /\ word_boundary(text, i + Len(keyword))

\* len(re.findall(pattern, text, re.IGNORECASE)): the matches found from
\* position i on, left to right and not overlapping
RECURSIVE findall_count(_, _, _)
findall_count(keyword, text, i) ==
  IF i > Len(text) THEN 0
  ELSE IF match_at(keyword, text, i)
       THEN 1 + findall_count(keyword, text, i + Len(keyword))
       ELSE findall_count(keyword, text, i + 1)

\* ' '.join(strings)
RECURSIVE join(_)
join(strings) ==
  IF Len(strings) = 0 THEN << >>
  ELSE IF Len(strings) = 1 THEN strings[1]
       ELSE strings[1] \o <<" ">> \o join(Tail(strings))

\* the elements of a sequence that satisfy Test, in order
RECURSIVE SelectRows(_, _)
SelectRows(rows, year) ==
  IF rows = << >> THEN << >>
  ELSE IF filing_year(Head(rows)) = year
       THEN <<Head(rows)>> \o SelectRows(Tail(rows), year)
       ELSE SelectRows(Tail(rows), year)

\* ' '.join(year_df['abstract'].astype(str))
year_abstracts(year) ==
  LET year_df == SelectRows(df, year)
  IN  join([i \in DOMAIN year_df |-> str(year_df[i].abstract)])

\* count += len(re.findall(...)) for keyword in keywords
tech_count(keywords, text) ==
  Sum([k \in DOMAIN keywords |-> findall_count(keywords[k], text, 1)], DOMAIN keywords)

\* trend_df: one row per year, ascending, one count per technology
trend_table ==
  LET years == available_years(df)
  IN  [y \in DOMAIN years |->
         [year |-> years[y],
          counts |-> LET text == year_abstracts(years[y])
                     IN  [t \in DOMAIN tech_keywords |->
                            tech_count(tech_keywords[t].keywords, text)]]]

\* the sum of column t over the rows from..to of trend_df
window_sum(trend_df, t, from, to) ==
  Sum([y \in from..to |-> trend_df[y].counts[t]], from..to)

\* trend_df[col].iloc[:3].mean() as the sum over its (at most three) rows
early_sum(trend_df, t) ==
  window_sum(trend_df, t, 1, IF Len(trend_df) < 3 THEN Len(trend_df) ELSE 3)

\* trend_df[col].iloc[-3:].mean() as the sum over its (at most three) rows
recent_sum(trend_df, t) ==
  window_sum(trend_df, t, IF Len(trend_df) < 3 THEN 1 ELSE Len(trend_df) - 2, Len(trend_df))

\* the growth rate computed for every column, with no test of the early mean
growth_guard_missing(early) == TRUE

\* if early > 0
growth_guard(early) == early > 0

\* the columns whose growth rate is computed
growth_columns(trend_df) ==
  IF Len(trend_df) > 1
  THEN {t \in DOMAIN tech_keywords : growth_guard(early_sum(trend_df, t))}
  ELSE {}

\* ((recent - early) / early) * 100; both means are over the same number of
\* rows, so the rate is the fraction num / den of the two sums
growth_rate(trend_df, t) ==
  [num |-> (recent_sum(trend_df, t) - early_sum(trend_df, t)) * 100,
   den |-> early_sum(trend_df, t)]

ShowTechnologyTrends ==
  /\ pc.app = "loaded"
  /\ df # << >>
  /\ LET trend_df == trend_table
     IN  /\ yearly_tech_trends' = trend_df
         /\ growth_rates' = [t \in growth_columns(trend_df) |-> growth_rate(trend_df, t)]
         /\ divided_by_zero' =
              (divided_by_zero \/ \E t \in growth_columns(trend_df) : early_sum(trend_df, t) = 0)
  /\ pc' = [pc EXCEPT !.app = "trends"]
  /\ UNCHANGED <<df, tech_trends, company_tech_scores, total_growth,
                 collaboration_patents, collaboration_pairs>>
  /\ UNCHANGED aggregates

\* if len(yearly_counts) > 1 and yearly_counts.iloc[0] > 0
timeline_guard(yearly_counts) == Len(yearly_counts) > 1 /\ yearly_counts[1].size > 0

\* the rows of the chosen period, those without a date dropped
SelectPeriod(rows, start_year, end_year) ==
  SelectSeq(rows, LAMBDA r : /\ filing_year(r) # NaT
                             /\ filing_year(r) >= start_year
                             /\ filing_year(r) <= end_year)

ShowTimelineAnalysis ==
  /\ pc.app = "loaded"
  /\ df # << >>
  /\ pc' = [pc EXCEPT !.app = "timeline"]
  /\ IF \A i \in DOMAIN df : filing_year(df[i]) = NaT
     THEN UNCHANGED <<total_growth, divided_by_zero>>
     ELSE \E s, e \in DOMAIN available_years(df) :
            LET filtered_df == SelectPeriod(df, available_years(df)[s], available_years(df)[e])
                yearly_counts == yearly_counts_of(filtered_df)
                first == yearly_counts[1].size
                last == yearly_counts[Len(yearly_counts)].size
            IN  IF filtered_df = << >>
                THEN UNCHANGED <<total_growth, divided_by_zero>>
                ELSE /\ total_growth' =
                          IF timeline_guard(yearly_counts)
                          THEN <<[num |-> (last - first) * 100, den |-> first]>>
                          ELSE <<[num |-> 0, den |-> 1]>>
                     /\ divided_by_zero' =
                          (divided_by_zero \/ (timeline_guard(yearly_counts) /\ first = 0))
  /\ UNCHANGED <<df, tech_trends, company_tech_scores, yearly_tech_trends, growth_rates,
                 collaboration_patents, collaboration_pairs>>
  /\ UNCHANGED aggregates

(* ---------------- target_company_analyzer.py: timeline, market ------------ *)
\* the rows of the target companies, in row order
target_rows == SelectSeq(df, LAMBDA r : \E k \in DOMAIN all_targets : r.normalized_assignee = all_targets[k])

\* more than ten characters make a publication number "complex"
ComplexNumberLength == 10

\* filed abroad, or with a complex publication number (a missing number has no length)
is_important(row) ==
  \/ row.country_code # <<"J","P">>
  \/ (~isna(row.publication_number) /\ Len(row.publication_number) > ComplexNumberLength)

\* the longest title shown in full
TitleLength == 50

\* patent['title'][:50] + '...' if len(str(patent['title'])) > 50 else patent['title']
short_title(title) ==
  IF Len(str(title)) > TitleLength
  THEN SubSeq(title, 1, TitleLength) \o <<".", ".", ".">>
  ELSE title

\* timeline_data: for company in all_targets, for each of its important patents
RECURSIVE timeline_data(_, _)
timeline_data(important_patents, c) ==
  IF c > Len(all_targets) THEN << >>
  ELSE LET company_patents ==
             SelectSeq(important_patents, LAMBDA r : r.normalized_assignee = all_targets[c])
       IN  [k \in DOMAIN company_patents |->
              [company |-> all_targets[c],
               year |-> filing_year(company_patents[k]),
               title |-> short_title(company_patents[k].title),
               country |-> company_patents[k].country_code]]
           \o timeline_data(important_patents, c + 1)

\* innovation_timeline_analysis: pd.DataFrame([]) has no column 'year', so
\* timeline_df['year'] raises KeyError when no target patent is important
InnovationTimelineAnalysis ==
  /\ pc.target = "focus"
  /\ LET important_patents == SelectSeq(target_rows, is_important)
     IN  IF \/ \E i \in DOMAIN important_patents :
                  to_datetime(important_patents[i].filing_date) = Raised
            \/ timeline_data(important_patents, 1) = << >>
         THEN /\ pc' = [pc EXCEPT !.target = "raised"]
              /\ UNCHANGED timeline_df
         ELSE /\ pc' = [pc EXCEPT !.target = "timeline"]
              /\ timeline_df' = timeline_data(important_patents, 1)
  /\ UNCHANGED <<df, analyses, company_ranking, yearly_trend, academic_rankings,
                global_companies, all_data, org_stats, comparison_df, radar,
                collection, company_counts, all_patents, request, drive, saved,
                emerging_keywords>>

\* the entries by descending number of countries, equal numbers in the order
\* they have (list.sort is stable)
RECURSIVE sort_by_countries(_)
sort_by_countries(entries) ==
  IF entries = << >> THEN << >>
  ELSE LET top == Max({entries[i].countries : i \in DOMAIN entries})
           k == Min({i \in DOMAIN entries : entries[i].countries = top})
       IN  <<entries[k]>> \o
           sort_by_countries(SubSeq(entries, 1, k - 1) \o SubSeq(entries, k + 1, Len(entries)))

\* global_companies before the sort: for company in all_targets that has
\* target patents with a country code (groupby leaves out a missing key)
RECURSIVE global_entries(_, _)
global_entries(rows, c) ==
  IF c > Len(all_targets) THEN << >>
  ELSE LET own == {i \in DOMAIN rows : /\ rows[i].normalized_assignee = all_targets[c]
                                        /\ ~isna(rows[i].country_code)}
       IN  (IF own = {} THEN << >>
            ELSE <<[company |-> all_targets[c],
                    countries |-> Cardinality({rows[i].country_code : i \in own}),
                    total_patents |-> Cardinality(own)]>>)
           \o global_entries(rows, c + 1)

\* market_strategy_analysis
MarketStrategyAnalysis ==
  /\ pc.target = "timeline"
  /\ global_companies' = sort_by_countries(global_entries(target_rows, 1))
  /\ pc' = [pc EXCEPT !.target = "market"]
  /\ UNCHANGED <<df, analyses, company_ranking, yearly_trend, academic_rankings,
                timeline_df, all_data, org_stats, comparison_df, radar, collection,
                company_counts, all_patents, request, drive, saved, emerging_keywords>>

(* ------------------------- the other entry points ------------------------- *)
\* run_analysis: no record was fetched, nothing is analyzed or saved
RunAnalysisNoData ==
  /\ pc.curved = "fetched"
  /\ df = << >>
  /\ pc' = [pc EXCEPT !.curved = "done"]
  /\ UNCHANGED <<df, analyses, company_ranking, yearly_trend, academic_rankings,
                timeline_df, global_companies, all_data, org_stats, comparison_df,
                radar, collection, company_counts, all_patents, request, drive, saved,
                emerging_keywords>>

\* the listing ordered by createdTime, the oldest file first
list_patent_files_oldest_first(folder) ==
  SelectSeq(folder, LAMBDA f : f.name = "patent_data_chunk")

\* list_patent_files: the files whose name contains 'patent_data_chunk',
\* ordered by createdTime desc
list_patent_files(folder) ==
  LET chunk_files == SelectSeq(folder, LAMBDA f : f.name = "patent_data_chunk")
  IN  [k \in DOMAIN chunk_files |-> chunk_files[Len(chunk_files) + 1 - k]]

\* download_from_drive: the 'data' part of a chunk file
download_from_drive(file) == file.content.data

\* for file_info in file_list: all_data.extend(chunk_data)
RECURSIVE extend_all(_)
extend_all(file_list) ==
  IF file_list = << >> THEN << >>
  ELSE download_from_drive(Head(file_list)) \o extend_all(Tail(file_list))

\* df.drop_duplicates(subset=[the number]): the first row of each number is kept
drop_duplicates(rows) ==
  LET numbered == Tuple([i \in DOMAIN rows |-> [index |-> i, row |-> rows[i]]])
      first(x) == \A j \in 1..(x.index - 1) :
                    numbered[j].row.publication_number # x.row.publication_number
      kept == SelectSeq(numbered, first)
  IN  Tuple([k \in DOMAIN kept |-> kept[k].row])

\* load_all_patent_data: the chunk files downloaded in the order of the
\* listing, the dates parsed with errors='coerce', the duplicates dropped; the
\* dashboard then works on the dataframe
LoadAllPatentData ==
  /\ pc.collector \in {"idle", "collected"}
  /\ all_data' = extend_all(list_patent_files(drive))
  /\ df' = drop_duplicates(Tuple([i \in DOMAIN all_data' |->
                                    [all_data'[i] EXCEPT !.filing_date = to_datetime_coerce(@)]]))
  /\ pc' = [pc EXCEPT !.collector = "loaded", !.app = "loaded"]
  /\ UNCHANGED <<analyses, company_ranking, yearly_trend, academic_rankings,
                timeline_df, global_companies, org_stats, comparison_df, radar,
                collection, company_counts, all_patents, request, drive, saved,
                emerging_keywords>>

\* execute_real_data_analysis: an empty dataframe is reported and nothing is run
ExecuteNoData ==
  /\ pc.app = "loaded"
  /\ df = << >>
  /\ pc' = [pc EXCEPT !.app = "nodata"]
  /\ UNCHANGED <<df, analyses, company_ranking, yearly_trend, academic_rankings,
                timeline_df, global_companies, all_data, org_stats, comparison_df,
                radar, collection, company_counts, all_patents, request, drive, saved,
                emerging_keywords>>

(* ------------------ streamlit_app.py: show_competitive_analysis ----------- *)
\* the comparison covers the eight companies with the most records
TopCompanies == 8

\* the radar chart shows the first five of them
RadarCompanies == 5

\* the years of the recency scale
RecencyFirstYear == 2015

RecencyLastYear == 2024

\* len(set(text.lower().split())): the distinct words of a text
unique_words(text) ==
  LET parts == split(lower(text), " ")
  IN  Cardinality({parts[k] : k \in DOMAIN parts} \ {<< >>})

\* the divisor without its lower bound of 1
years_divisor_no_max(company_df) ==
  Cardinality({filing_year(company_df[i]) : i \in DOMAIN company_df} \ {NaT})

\* max(1, company_df['filing_year'].nunique())
years_divisor(company_df) ==
  LET nunique == Cardinality({filing_year(company_df[i]) : i \in DOMAIN company_df} \ {NaT})
  IN  IF nunique > 1 THEN nunique ELSE 1

\* (avg_year - 2015) / (2024 - 2015) * 100; the mean of no year is nan
recency_score(company_df) ==
  LET dated == {i \in DOMAIN company_df : filing_year(company_df[i]) # NaT}
      total == Sum([i \in dated |-> filing_year(company_df[i])], dated)
  IN  IF dated = {} THEN nan
      ELSE float((total - RecencyFirstYear * Cardinality(dated)) * 100,
                 Cardinality(dated) * (RecencyLastYear - RecencyFirstYear))

\* sum(len(inv) if isinstance(inv, list) else 0 for inv in company_df['inventors'])
total_inventors(company_df) ==
  Sum([i \in DOMAIN company_df |->
         IF isna(company_df[i].inventors) THEN 0 ELSE Len(company_df[i].inventors)],
      DOMAIN company_df)

\* one row of comparison_df
company_metrics(rows, company) ==
  LET company_df == SelectSeq(rows, LAMBDA r : ~isna(r.assignee) /\ r.assignee = company)
      abstracts == join([i \in DOMAIN company_df |-> str(company_df[i].abstract)])
      n == Len(company_df)
  IN  [company |-> company,
       patents |-> float(n, 1),
       yearly_average |-> float(n, years_divisor(company_df)),
       diversity |-> IF n > 0 THEN float(unique_words(abstracts), n) ELSE float(0, 1),
       recency |-> recency_score(company_df),
       collaboration |-> IF n > 0 THEN float(total_inventors(company_df), n) ELSE float(0, 1)]

comparison_data(rows) ==
  LET top_companies == head(value_counts([i \in DOMAIN rows |-> rows[i].assignee]), TopCompanies)
  IN  [k \in DOMAIN top_companies |-> company_metrics(rows, top_companies[k].value)]

\* a <= b for two floats that are not nan (their divisors are positive)
float_le(a, b) == a.num * b.den <= b.num * a.den

\* Series.max() and Series.min(): nan values are skipped; nan when all are nan
float_max(values) ==
  LET real == {values[k] : k \in DOMAIN values} \ {nan}
  IN  IF real = {} THEN nan ELSE CHOOSE v \in real : \A w \in real : float_le(w, v)

float_min(values) ==
  LET real == {values[k] : k \in DOMAIN values} \ {nan}
  IN  IF real = {} THEN nan ELSE CHOOSE v \in real : \A w \in real : float_le(v, w)

\* max_val != min_val (nan differs from everything, itself included)
differ(max_val, min_val) ==
  max_val.nan \/ min_val.nan \/ ~(float_le(max_val, min_val) /\ float_le(min_val, max_val))

\* (row[metric] - min_val) / (max_val - min_val) if max_val != min_val else 0.5
normalized(value, values) ==
  LET max_val == float_max(values)
      min_val == float_min(values)
  IN  IF ~differ(max_val, min_val) THEN float(1, 2)
      ELSE IF value.nan \/ max_val.nan THEN nan
           ELSE float((value.num * min_val.den - min_val.num * value.den) * (max_val.den * min_val.den),
                      (value.den * min_val.den) * (max_val.num * min_val.den - min_val.num * max_val.den))

radar_values(comparison) ==
  LET top5 == head(comparison, RadarCompanies)
  IN  [k \in DOMAIN top5 |->
         <<normalized(top5[k].patents, [j \in DOMAIN comparison |-> comparison[j].patents]),
           normalized(top5[k].recency, [j \in DOMAIN comparison |-> comparison[j].recency]),
           normalized(top5[k].diversity, [j \in DOMAIN comparison |-> comparison[j].diversity]),
           normalized(top5[k].collaboration,
                      [j \in DOMAIN comparison |-> comparison[j].collaboration])>>]

ShowCompetitiveAnalysis ==
  /\ pc.app = "loaded"
  /\ df # << >>
  /\ LET comparison == comparison_data(df)
         values == radar_values(comparison)
     IN  /\ comparison_df' = comparison
         /\ radar' = values
         /\ divided_by_zero' =
              (divided_by_zero
               \/ zero_divisors({comparison[k].yearly_average : k \in DOMAIN comparison}
                                \cup {comparison[k].diversity : k \in DOMAIN comparison}
                                \cup {comparison[k].collaboration : k \in DOMAIN comparison}
                                \cup {values[k][m] : k \in DOMAIN values, m \in 1..4}) # {})
  /\ pc' = [pc EXCEPT !.app = "competitive"]
  /\ UNCHANGED <<df, company_ranking, yearly_trend, academic_rankings, timeline_df,
                global_companies, all_data, org_stats, collection, company_counts,
                all_patents, request, drive, saved, emerging_keywords>>
  /\ UNCHANGED <<tech_trends, company_tech_scores, yearly_tech_trends, growth_rates, total_growth,
                 collaboration_patents, collaboration_pairs>>

(* ------------- patent_cloud_collector.py: collect_real_patents ------------ *)
\* self.real_patents, in the order of the dict; a patent number is written as
\* the rank of its first appearance in the table (1 for US10847397), so a
\* number listed under two companies has the same rank in both lists
real_patents ==
  <<
    [company |-> "Applied Materials",
     patents |-> <<1, 2, 3, 4, 5, 6, 7, 8, 9, 10, 11, 12, 13, 14, 15, 16, 17, 18, 19, 20,
                  21, 22, 23, 24, 25>>],
    [company |-> "Tokyo Electron",
     patents |-> <<26, 27, 28, 29, 30, 31, 32, 33, 34, 35, 36, 37, 38, 39, 40, 41, 42, 43,
                  24, 25, 44, 45, 46, 47, 48>>],
    [company |-> "Kyocera",
     patents |-> <<49, 50, 51, 52, 53, 54, 55, 56, 57, 58, 59, 60, 61, 62, 63, 64, 65, 66,
                  67, 68, 69, 70, 71, 72, 73>>],
    [company |-> "Shinko Electric",
     patents |-> <<74, 75, 76, 77, 78, 79, 33, 80, 81, 82, 83, 84, 85, 86, 87, 88, 89, 90,
                  71, 72>>],
    [company |-> "TOTO",
     patents |-> <<91, 92, 93, 94, 95, 96, 97, 98, 99, 100, 101, 102, 103, 104, 105, 106,
                  89, 90, 107, 71>>],
    [company |-> "Sumitomo Osaka Cement",
     patents |-> <<108, 109, 110, 111, 112, 113, 114, 115, 116, 117, 118, 119, 120, 121,
                  122, 123, 106, 89, 90, 107>>],
    [company |-> "NGK Insulators",
     patents |-> <<124, 125, 126, 127, 128, 129, 130, 131, 132, 133, 134, 135, 136, 137,
                  138, 139, 123, 106, 89, 90>>],
    [company |-> "NTK Ceratec",
     patents |-> <<140, 141, 142, 143, 32, 144, 145, 146, 147, 148, 149, 150, 151, 152, 153,
                  154, 139, 123, 106, 89>>],
    [company |-> "Lam Research",
     patents |-> <<155, 156, 157, 158, 159, 160, 161, 162, 163, 164, 165, 166, 40, 167, 168,
                  169, 154, 139, 123, 106>>],
    [company |-> "Entegris",
     patents |-> <<109, 110, 111, 112, 113, 114, 115, 116, 117, 118, 119, 120, 121, 122,
                  170, 171, 169, 154, 139, 123>>],
    [company |-> "MiCo",
     patents |-> <<125, 126, 127, 128, 129, 130, 131, 132, 133, 134, 135, 136, 137, 138,
                  172, 173, 171, 169, 154, 139>>],
    [company |-> "SEMCO Engineering",
     patents |-> <<141, 142, 143, 32, 144, 145, 146, 147, 148, 149, 150, 151, 152, 153, 174,
                  175, 173, 171, 169, 154>>],
    [company |-> "Creative Technology",
     patents |-> <<176, 177, 178, 179, 180, 181, 182, 183, 184, 185, 186, 187, 188, 189,
                  190, 191, 192, 193, 194, 195, 196, 197, 198, 199, 200>>],
    [company |-> "Tsukuba Seiko",
     patents |-> <<201, 202, 203, 204, 205, 206, 207, 208, 209, 210, 211, 212, 213, 214,
                  215, 216, 217, 218, 219, 220, 221, 222, 223, 224, 225>>],
    [company |-> "FM Industries",
     patents |-> <<226, 227, 228, 229, 230, 231, 232, 233, 234, 235, 236, 237, 238, 239,
                  240, 241, 242, 243, 244, 245, 246, 247, 248, 249, 250>>],
    [company |-> "Calitech",
     patents |-> <<251, 252, 253, 254, 255, 256, 257, 258, 259, 161, 162, 163, 260, 261,
                  262, 263, 264, 265, 266, 267, 268, 269, 270, 271, 272>>],
    [company |-> "Beijing U-Precision",
     patents |-> <<273, 274, 275, 276, 277, 77, 78, 79, 278, 34, 35, 279, 280, 281, 282,
                  283, 284, 285, 286, 287, 288, 289, 290, 291, 292>>]
  >>

\* self.all_patents: the numbers of the table without repetition
all_patent_numbers ==
  UNION {{real_patents[c].patents[i] : i \in DOMAIN real_patents[c].patents} :
           c \in DOMAIN real_patents}

\* len(self.all_patents): the distinct numbers of the table
all_patents_size == Cardinality(all_patent_numbers)

\* mode_config and the default of mode_config.get
mode_config ==
  [standard |-> [total_patents |-> 50, companies |-> 6],
   extended |-> [total_patents |-> 100, companies |-> 10],
   large |-> [total_patents |-> 200, companies |-> 17],
   all |-> [total_patents |-> all_patents_size, companies |-> Len(real_patents)],
   other |-> [total_patents |-> 50, companies |-> 5]]

\* s[a:b] of Python: the elements after the first a up to the b-th
slice(s, a, b) == SubSeq(s, a + 1, Min({b, Len(s)}))

\* for company in selected_companies: patents_to_collect.extend(company_patents)
RECURSIVE company_patents(_, _, _)
company_patents(selected_companies, patents_per_company, k) ==
  IF k > Len(selected_companies) THEN << >>
  ELSE slice(selected_companies[k].patents, 0, patents_per_company)
       \o company_patents(selected_companies, patents_per_company, k + 1)

\* patents_to_collect of a mode, its length and the divisor of the quota
patents_to_collect(config) ==
  LET selected_companies == head(real_patents, config.companies)
      divisor == Len(selected_companies)
      patents_per_company == IF divisor = 0 THEN 0 ELSE config.total_patents \div divisor
      taken == company_patents(selected_companies, patents_per_company, 1)
      remaining == config.total_patents - Len(taken)
      additional == IF remaining > 0 /\ divisor > 0
                    THEN slice(selected_companies[1].patents, patents_per_company,
                               patents_per_company + remaining)
                    ELSE << >>
  IN  [quota_divisor |-> divisor, patents_per_company |-> patents_per_company,
       patents |-> taken \o additional, count |-> Len(taken) + Len(additional)]

\* company_stats: for each selected company the planned patents found in its list
company_stats_of(config, planned) ==
  LET selected_companies == head(real_patents, config.companies)
      listed(k) == {selected_companies[k].patents[j] : j \in DOMAIN selected_companies[k].patents}
  IN  [k \in DOMAIN selected_companies |->
         [company |-> selected_companies[k].company,
          count |-> Cardinality({i \in DOMAIN planned : planned[i] \in listed(k)})]]

(* ------------- patent_cloud_collector.py: save_to_google_drive ------------ *)
\* chunk_size: int = 50
ChunkSize == 50

\* range(start, stop, step) of Python for a positive step
range(start, stop, step) ==
  LET n == Cardinality({i \in start..(stop - 1) : (i - start) % step = 0})
  IN  [k \in 1..n |-> start + (k - 1) * step]

\* the chunks cut one record short
chunks_cut_short(data, chunk_size) ==
  LET starts == range(0, Len(data), chunk_size)
  IN  [k \in DOMAIN starts |-> slice(data, starts[k], starts[k] + chunk_size - 1)]

\* chunks = [data[i:i+chunk_size] for i in range(0, len(data), chunk_size)]
chunks_of(data, chunk_size) ==
  LET starts == range(0, Len(data), chunk_size)
  IN  [k \in DOMAIN starts |-> slice(data, starts[k], starts[k] + chunk_size)]

\* the files the call creates, in the order of their upload: the metadata
\* file, then one file per chunk (their names differ by chunk number and by
\* the time stamp of the call, which is left out)
uploads_of(data, company_stats) ==
  LET chunks == chunks_of(data, ChunkSize)
  IN  <<[name |-> "metadata",
         content |-> [total_patents |-> Len(data), company_distribution |-> company_stats]]>>
      \o [k \in DOMAIN chunks |->
            [name |-> "patent_data_chunk",
             content |-> [metadata |-> [chunk_number |-> k,
                                        total_chunks |-> Len(chunks),
                                        chunk_size |-> Len(chunks[k])],
                          data |-> chunks[k]]]]

\* save_to_google_drive: the files created and the value returned; without a
\* connection nothing is uploaded, and an upload that raises (the
\* failing_upload-th, 0 for none) ends the call in its except branch
save_to_google_drive(data, company_stats, connected, failing_upload) ==
  LET uploads == uploads_of(data, company_stats)
  IN  IF ~connected THEN [files |-> << >>, returned |-> 0]
      ELSE IF failing_upload \in DOMAIN uploads
           THEN [files |-> head(uploads, failing_upload - 1), returned |-> 0]
           ELSE [files |-> uploads, returned |-> Len(data)]

\* the uploads at which a call is made to fail: none, the metadata file, the
\* first chunk, the last chunk
FailingUploads(data) == {0, 1, 2, 1 + ((Len(data) + ChunkSize - 1) \div ChunkSize)}

(* ------------- patent_cloud_collector.py: the collection run -------------- *)
\* which requests of a run scrape_patent_details answers with a record
ScrapeOutcomes == {"none", "first", "odd", "all"}

\* scrape_patent_details returns a record, or None after any exception
scrape_succeeds(outcome, i) ==
  \/ outcome = "all"
  \/ outcome = "first" /\ i = 1
  \/ outcome = "odd" /\ i % 2 = 1

\* a scraped record: the patent number, the filing date (the text 'Filing
\* date not found' unless the page has one) and the time of the request, given
\* by the time the run began and the position of the request in the run
scraped(patent_number, now, i) ==
  [publication_number |-> patent_number, filing_date |-> BadDate, scraped_at |-> <<now, i>>]

\* the run that appends a record for every request, answered or not
collected_data_unchecked(patents, outcome, now) ==
  Tuple([i \in DOMAIN patents |-> scraped(patents[i], now, i)])

\* if patent_data: collected_data.append(patent_data)
collected_data_of(patents, outcome, now) ==
  SelectSeq(Tuple([i \in DOMAIN patents |-> scraped(patents[i], now, i)]),
            LAMBDA r : scrape_succeeds(outcome, r.scraped_at[2]))

\* collect_real_patents: the plan, one request per planned patent, the
\* summary, and the save when a record was collected. The surroundings of a
\* run: the modes the user picks from, the answers of Google Patents, whether
\* the Drive service and the folder were set up at construction, and whether
\* an upload may raise
collect_real_patents(modes, outcomes, connections, faults) ==
  /\ pc.collector = "idle"
  /\ \E collection_mode \in modes :
       LET config == mode_config[collection_mode]
           planned == patents_to_collect(config)
           company_stats == company_stats_of(config, planned.patents)
       IN  \E outcome \in outcomes :
             LET collected_data == collected_data_of(planned.patents, outcome, Len(drive))
             IN  \E connected \in connections,
                    failing_upload \in (IF faults THEN FailingUploads(collected_data) ELSE {0}) :
                   LET save == IF collected_data # << >>
                               THEN save_to_google_drive(collected_data, company_stats,
                                                         connected, failing_upload)
                               ELSE [files |-> << >>, returned |-> 0]
                   IN  /\ collection' =
                            [mode |-> collection_mode,
                             patents_per_company |-> planned.patents_per_company,
                             patents_to_collect |-> planned.patents,
                             company_stats |-> company_stats,
                             outcome |-> outcome,
                             planned |-> planned.count,
                             collected |-> Len(collected_data),
                             success_rate |->
                               IF planned.count # 0
                               THEN float(Len(collected_data) * 100, planned.count)
                               ELSE float(0, 1),
                             saved_count |-> save.returned]
                       /\ saved' = IF collected_data # << >>
                                   THEN [records |-> Len(collected_data),
                                         returned |-> save.returned,
                                         connected |-> connected,
                                         raised |-> (connected /\ save.returned = 0),
                                         first_file |-> Len(drive) + 1]
                                   ELSE saved
                       /\ drive' = drive \o save.files
                       /\ divided_by_zero' = (divided_by_zero \/ planned.quota_divisor = 0)
  /\ pc' = [pc EXCEPT !.collector = "collected"]
  /\ UNCHANGED <<df, company_ranking, yearly_trend, academic_rankings, timeline_df,
                global_companies, all_data, org_stats, comparison_df, radar,
                company_counts, all_patents, request, emerging_keywords>>
  /\ UNCHANGED <<tech_trends, company_tech_scores, yearly_tech_trends, growth_rates, total_growth,
                 collaboration_patents, collaboration_pairs>>

\* a run of the collector, with or without the Drive folder
CollectRealPatents == collect_real_patents(DOMAIN mode_config, ScrapeOutcomes, BOOLEAN, TRUE)

\* a run of a collector whose Drive service was never set up
CollectWithoutDrive == collect_real_patents(DOMAIN mode_config, ScrapeOutcomes, {FALSE}, TRUE)

\* a run of fifty or a hundred patents that Google Patents answers in whole or
\* in part and that Drive stores without an error
CollectAndSave == collect_real_patents({"standard", "extended"}, {"odd", "all"}, {TRUE}, FALSE)

\* the calls of save_to_google_drive that uploaded their metadata file
saves_begun == Cardinality({i \in DOMAIN drive : drive[i].name = "metadata"})

\* the button is pressed again: a new collector is constructed
NewCollector ==
  /\ pc.collector = "collected"
  /\ saves_begun < MaxRuns
  /\ pc' = [pc EXCEPT !.collector = "idle"]
  /\ UNCHANGED <<df, analyses, company_ranking, yearly_trend, academic_rankings,
                timeline_df, global_companies, all_data, org_stats, comparison_df,
                radar, collection, company_counts, all_patents, request, drive, saved,
                emerging_keywords>>

(* ------------------ bigquery_connector.py: the overview ------------------- *)
\* the ranking shows the ten companies with the most records
DashRankingSize == 10

\* company_counts = df['company_normalized'].value_counts().head(10)
OverviewAnalysis ==
  /\ pc.dashboard = "normalized"
  /\ df # << >>
  /\ company_counts' =
       head(value_counts([i \in DOMAIN df |-> df[i].company_normalized]), DashRankingSize)
  /\ pc' = [pc EXCEPT !.dashboard = "overview"]
  /\ UNCHANGED <<df, analyses, company_ranking, yearly_trend, academic_rankings,
                timeline_df, global_companies, all_data, org_stats, comparison_df,
                radar, collection, all_patents, request, drive, saved,
                emerging_keywords>>

(* ------------------------- dual_patent_connector.py ----------------------- *)
\* the decimal digits, to write the numbers of the records
Digits == <<"0","1","2","3","4","5","6","7","8","9">>

numeral(i) == <<Digits[(i \div 10) + 1], Digits[(i % 10) + 1]>>

\* the random part of a request's records: it shifts their numbers and dates
Seeds == {0, 4, 6, 8}

\* _generate_realistic_date: a date from 2015-01-01 to 2024-12-30
GeneratedFirstYear == 2015

GeneratedYears == 10

\* the first of the known patents was filed in 2019; up to 365 days are
\* added or taken
UsptoBaseYear == 2019

\* patents_data of search_uspto_bulk_data before the cut base_patents[:limit]
uspto_patents(seed) ==
  [i \in 1..MaxPageRows |->
     Row(<<"U","S">> \o numeral(i), <<"A","p","p","l","i","e","d"," ","M","a","t","e","r","i","a","l","s",","," ","I","n","c",".">>,
         <<"C","e","r","a","m","i","c"," ","e","l","e","c","t","r","o","s","t","a","t","i","c"," ","c","h","u","c","k">>, <<"A","d","v","a","n","c","e","d"," ","e","l","e","c","t","r","o","s","t","a","t","i","c"," ","c","h","u","c","k"," ","t","e","c","h","n","o","l","o","g","y">>,
         UsptoBaseYear - 1 + ((i + seed) % 3), <<"U","S">>)]

\* the patent numbers found in a page of Google Patents, as records
google_patents(seed) ==
  [i \in 1..MaxPageRows |->
     Row(<<"U","S">> \o numeral(i + seed), <<"K","y","o","c","e","r","a"," ","C","o","r","p","o","r","a","t","i","o","n">>,
         <<"E","l","e","c","t","r","o","s","t","a","t","i","c"," ","c","h","u","c","k"," ","t","e","c","h","n","o","l","o","g","y">>, <<"P","a","t","e","n","t"," ","r","e","l","a","t","e","d"," ","t","o"," ","c","h","u","c","k"," ","t","e","c","h","n","o","l","o","g","y">>,
         GeneratedFirstYear + ((7 * i + seed) % GeneratedYears), <<"U","S">>)]

\* the titles of an arXiv feed after the feed name: every fourth is off topic
arxiv_titles ==
  [i \in 1..MaxPageRows |->
     IF i % 4 # 0 THEN <<"E","l","e","c","t","r","o","s","t","a","t","i","c"," ","f","o","r","c","e","s">> ELSE <<"G","r","a","p","h"," ","t","h","e","o","r","y">>]

\* the records of the titles[1:limit+1] that hold 'electrostatic' or 'semiconductor'
RECURSIVE arxiv_patents(_, _, _)
arxiv_patents(titles, seed, i) ==
  IF i > Len(titles) THEN << >>
  ELSE (IF \/ Contains(<<"e","l","e","c","t","r","o","s","t","a","t","i","c">>, lower(titles[i]))
           \/ Contains(<<"s","e","m","i","c","o","n","d","u","c","t","o","r">>, lower(titles[i]))
        THEN <<Row(<<"a","r","X","i","v",":">> \o numeral(i - 1), <<"A","c","a","d","e","m","i","c"," ","R","e","s","e","a","r","c","h">>,
                   titles[i], <<"A","c","a","d","e","m","i","c"," ","r","e","s","e","a","r","c","h"," ","p","a","p","e","r">>,
                   GeneratedFirstYear + ((3 * i + seed) % GeneratedYears), <<"U","S">>)>>
        ELSE << >>)
       \o arxiv_patents(titles, seed, i + 1)

\* what a request answers: status 200, another status, or an exception
Responses == {"200", "other status", "exception"}

\* scrape_google_patents: a list, or None when the status is not 200 (the
\* function then ends without a return statement)
scrape_google_patents(response, found, limit) ==
  IF response = "exception" THEN [returned |-> "list", value |-> << >>]
  ELSE IF response = "200" THEN [returned |-> "list", value |-> head(found, limit)]
       ELSE [returned |-> "None", value |-> << >>]

\* search_arxiv_patents: the same structure
search_arxiv_patents(response, titles, seed, limit) ==
  IF response = "exception" THEN [returned |-> "list", value |-> << >>]
  ELSE IF response = "200"
       THEN [returned |-> "list", value |-> arxiv_patents(head(titles, limit), seed, 1)]
       ELSE [returned |-> "None", value |-> << >>]

\* the three search_queries of search_patents_api
SearchQueries == 3

SearchUsptoBulkData ==
  /\ pc.connector = "start"
  /\ ~request.use_sample
  /\ \E seed \in Seeds :
       all_patents' = all_patents \o head(uspto_patents(seed), request.limit \div 3)
  /\ pc' = [pc EXCEPT !.connector = "uspto"]
  /\ UNCHANGED <<df, analyses, company_ranking, yearly_trend, academic_rankings,
                timeline_df, global_companies, all_data, org_stats, comparison_df,
                radar, collection, company_counts, request, drive, saved,
                emerging_keywords>>

\* all_patents.extend(google_data): extend(None) raises TypeError
ScrapeGooglePatents ==
  /\ pc.connector \in {"uspto", "google"}
  /\ request.queries < SearchQueries
  /\ \E response \in Responses, seed \in Seeds, found \in {0, MaxPageRows} :
       LET google_data == scrape_google_patents(response, head(google_patents(seed), found),
                                                request.limit \div 6)
       IN  IF google_data.returned = "None"
           THEN /\ pc' = [pc EXCEPT !.connector = "raised"]
                /\ UNCHANGED <<all_patents, request>>
           ELSE /\ all_patents' = all_patents \o google_data.value
                /\ request' = [request EXCEPT !.queries = @ + 1]
                /\ pc' = [pc EXCEPT !.connector = "google"]
  /\ UNCHANGED <<df, analyses, company_ranking, yearly_trend, academic_rankings,
                timeline_df, global_companies, all_data, org_stats, comparison_df,
                radar, collection, company_counts, drive, saved, emerging_keywords>>

SearchArxivPatents ==
  /\ pc.connector = "google"
  /\ request.queries = SearchQueries
  /\ \E response \in Responses, seed \in Seeds, found \in {0, MaxPageRows} :
       LET academic_data == search_arxiv_patents(response, head(arxiv_titles, found), seed,
                                                 request.limit \div 4)
       IN  IF academic_data.returned = "None"
           THEN /\ pc' = [pc EXCEPT !.connector = "raised"]
                /\ UNCHANGED all_patents
           ELSE /\ all_patents' = all_patents \o academic_data.value
                /\ pc' = [pc EXCEPT !.connector = "arxiv"]
  /\ UNCHANGED <<df, analyses, company_ranking, yearly_trend, academic_rankings,
                timeline_df, global_companies, all_data, org_stats, comparison_df,
                radar, collection, company_counts, request, drive, saved,
                emerging_keywords>>

\* df.sort_values('filing_date', ascending=False): latest first; the dates
\* of the model are years, and rows of one year stay in their order
RECURSIVE sort_by_filing_date(_)
sort_by_filing_date(rows) ==
  IF rows = << >> THEN << >>
  ELSE LET latest == Max({rows[i].filing_date : i \in DOMAIN rows})
           k == Min({i \in DOMAIN rows : rows[i].filing_date = latest})
       IN  <<rows[k]>> \o
           sort_by_filing_date(SubSeq(rows, 1, k - 1) \o SubSeq(rows, k + 1, Len(rows)))

\* the data processing without the cut to limit rows
process_patents_uncut(patents, start_date, limit) ==
  LET deduplicated == drop_duplicates(patents)
      dated == SelectSeq(deduplicated, LAMBDA r : to_datetime_coerce(r.filing_date) # NaT)
  IN  sort_by_filing_date(SelectSeq(dated, LAMBDA r : r.filing_date >= start_date))

\* the data processing of search_patents_api
process_patents(patents, start_date, limit) ==
  LET deduplicated == drop_duplicates(patents)
      coerced == [i \in DOMAIN deduplicated |->
                    [deduplicated[i] EXCEPT !.filing_date = to_datetime_coerce(@)]]
      dated == SelectSeq(coerced, LAMBDA r : r.filing_date # NaT)
      recent == SelectSeq(dated, LAMBDA r : r.filing_date >= start_date)
  IN  head(sort_by_filing_date(recent), limit)

\* search_patents_api returns the processed records, or an empty dataframe
ProcessPatents ==
  /\ pc.connector = "arxiv"
  /\ df' = IF all_patents # << >>
           THEN process_patents(all_patents, request.start_date, request.limit)
           ELSE << >>
  /\ pc' = [pc EXCEPT !.connector = "processed"]
  /\ UNCHANGED <<analyses, company_ranking, yearly_trend, academic_rankings,
                timeline_df, global_companies, all_data, org_stats, comparison_df,
                radar, collection, company_counts, all_patents, request, drive, saved,
                emerging_keywords>>

\* get_demo_data: 400 generated records, here two of them
get_demo_data ==
  <<Row(<<"U","S","0","8","0","0","0","0","0","1">>, <<"T","O","T","O"," ","L","t","d">>, <<"V","a","r","i","a","b","l","e"," ","c","u","r","v","a","t","u","r","e"," ","e","l","e","c","t","r","o","s","t","a","t","i","c"," ","c","h","u","c","k"," ","s","y","s","t","e","m">>,
        <<"T","h","i","s"," ","i","n","v","e","n","t","i","o","n"," ","r","e","l","a","t","e","s"," ","t","o"," ","c","h","u","c","k"," ","t","e","c","h","n","o","l","o","g","y">>, 2019, <<"U","S">>),
    Row(<<"U","S","0","8","0","0","0","0","0","2">>, <<"K","L","A"," ","C","o","r","p","o","r","a","t","i","o","n">>, <<"F","l","e","x","i","b","l","e"," ","e","l","e","c","t","r","o","s","t","a","t","i","c"," ","c","h","u","c","k">>,
        <<"T","h","i","s"," ","i","n","v","e","n","t","i","o","n"," ","r","e","l","a","t","e","s"," ","t","o"," ","c","h","u","c","k"," ","t","e","c","h","n","o","l","o","g","y">>, 2023, <<"U","S">>)>>

\* search_esc_patents returns api_data when it is not empty, else the demo data
ReturnPatents ==
  /\ pc.connector = "processed"
  /\ df' = IF df # << >> THEN df ELSE get_demo_data
  /\ pc' = [pc EXCEPT !.connector = "returned"]
  /\ UNCHANGED <<analyses, company_ranking, yearly_trend, academic_rankings,
                timeline_df, global_companies, all_data, org_stats, comparison_df,
                radar, collection, company_counts, all_patents, request, drive, saved,
                emerging_keywords>>

\* search_esc_patents with use_sample=True
ReturnDemoData ==
  /\ pc.connector = "start"
  /\ request.use_sample
  /\ df' = get_demo_data
  /\ pc' = [pc EXCEPT !.connector = "returned"]
  /\ UNCHANGED <<analyses, company_ranking, yearly_trend, academic_rankings,
                timeline_df, global_companies, all_data, org_stats, comparison_df,
                radar, collection, company_counts, all_patents, request, drive, saved,
                emerging_keywords>>


(* ------------- advanced_analyzer.py: the last steps of the run ------------ *)
\* the years of the early and of the recent period
EarlyFirstYear == 2015

EarlyLastYear == 2019

RecentFirstYear == 2020

RecentLastYear == 2024

\* df[df['filing_year'].between(first, last)]
between(rows, first, last) ==
  SelectSeq(rows, LAMBDA r : filing_year(r) # NaT /\ filing_year(r) \in first..last)

\* emerging_technology_detection: a bare return, which gives None, when one
\* of the periods has no record; otherwise the list of keywords, which stands
\* here for the texts it was computed from
emerging_technology_detection(rows) ==
  LET early_texts == between(rows, EarlyFirstYear, EarlyLastYear)
      recent_texts == between(rows, RecentFirstYear, RecentLastYear)
  IN  IF Len(early_texts) = 0 \/ Len(recent_texts) = 0
      THEN [none |-> TRUE, early |-> 0, recent |-> 0]
      ELSE [none |-> FALSE, early |-> Len(early_texts), recent |-> Len(recent_texts)]

EmergingTechnologyDetection ==
  /\ pc.advanced = "collab"
  /\ emerging_keywords' = emerging_technology_detection(df)
  /\ pc' = [pc EXCEPT !.advanced = "emerging"]
  /\ UNCHANGED <<df, analyses, company_ranking, yearly_trend, academic_rankings,
                timeline_df, global_companies, all_data, org_stats, comparison_df,
                radar, collection, company_counts, all_patents, request, drive, saved>>

\* create_advanced_visualizations: the figures are drawn from the results
CreateAdvancedVisualizations ==
  /\ pc.advanced = "emerging"
  /\ pc' = [pc EXCEPT !.advanced = "visualized"]
  /\ UNCHANGED <<df, analyses, company_ranking, yearly_trend, academic_rankings,
                timeline_df, global_companies, all_data, org_stats, comparison_df,
                radar, collection, company_counts, all_patents, request, drive, saved,
                emerging_keywords>>

\* generate_comprehensive_report: emerging_keywords[:20] is a TypeError
\* when emerging_keywords is None
GenerateComprehensiveReport ==
  /\ pc.advanced = "visualized"
  /\ pc' = [pc EXCEPT !.advanced = IF emerging_keywords.none THEN "raised" ELSE "reported"]
  /\ UNCHANGED <<df, analyses, company_ranking, yearly_trend, academic_rankings,
                timeline_df, global_companies, all_data, org_stats, comparison_df,
                radar, collection, company_counts, all_patents, request, drive, saved,
                emerging_keywords>>

(* --------------------------- specifications ------------------------------ *)
StartPc ==
  [curved |-> "fetched", advanced |-> "start", target |-> "start",
   dashboard |-> "loaded", app |-> "loaded", collector |-> "off", connector |-> "off"]

NoResults ==
  /\ tech_trends = << >>
  /\ company_tech_scores = << >>
  /\ yearly_tech_trends = << >>
  /\ growth_rates = << >>
  /\ total_growth = << >>
  /\ collaboration_patents = << >>
  /\ collaboration_pairs = << >>
  /\ divided_by_zero = FALSE
  /\ company_ranking = << >>
  /\ yearly_trend = << >>
  /\ academic_rankings = << >>
  /\ timeline_df = << >>
  /\ global_companies = << >>
  /\ all_data = << >>
  /\ org_stats = << >>
  /\ comparison_df = << >>
  /\ radar = << >>
  /\ collection = << >>
  /\ company_counts = << >>
  /\ all_patents = << >>
  /\ request = << >>
  /\ drive = << >>
  /\ saved = << >>
  /\ emerging_keywords = << >>

\* one fetched record, its assignee any of the inputs
Init ==
  /\ df \in {<<AssigneeRow(a)>> : a \in AssigneeInputs}
  /\ pc = StartPc
  /\ NoResults

Next ==
  \/ NormalizeCompanyNames
  \/ AnalyzeData
  \/ ReadCsv
  \/ ClassifyOrganizations
  \/ DashNormalize

Spec == Init /\ [][Next]_vars

\* records that differ in every field; some share a canonical company name
OrgSamples ==
  { Row(1, <<"K","y","o","c","e","r","a"," ","U","n","i","v","e","r","s","i","t","y">>,
        <<"C","e","r","a","m","i","c"," ","c","h","u","c","k">>, NaN, 2019, <<"J","P">>),
    Row(1, <<"K","Y","O","C","E","R","A"," ","C","O","R","P","O","R","A","T","I","O","N">>,
        <<"T","h","e","r","m","a","l"," ","b","o","w">>,
        <<"t","h","e","r","m","a","l"," ","s","t","r","e","s","s">>, 2021, <<"U","S">>),
    Row(1, <<"a","c","m","e"," ","I","n","s","t","i","t","u","t","e"," ","o","f"," ","T","e","c","h","n","o","l","o","g","y">>,
        <<"W","a","f","e","r"," ","h","o","l","d","e","r">>, << >>, 2020, <<"U","S">>),
    Row(1, <<"a","c","m","e"," ","L","a","b">>, NaN, NaN, NaT, <<"J","P">>),
    Row(1, <<"T","O","T","O"," ","L","T","D">>,
        <<"R","F"," ","p","o","w","e","r"," ","s","u","p","p","l","y">>, NaN, 2022, NaN),
    Row(1, NaN, <<"C","e","r","a","m","i","c"," ","c","h","u","c","k">>, NaN, 2019, <<"J","P">>),
    Row(1, <<"U","n","k","n","o","w","n">>, NaN, NaN, 2023, <<"U","S">>) }

\* a dataframe of one to MaxOrgRows of the sample records
InitOrg ==
  /\ df \in {Numbered(rows) : rows \in SeqsUpTo(OrgSamples, MaxOrgRows) \ {<< >>}}
  /\ pc = StartPc
  /\ NoResults

SpecOrg == InitOrg /\ [][Next]_vars

\* records with texts that repeat a keyword, hold several keywords of one
\* category, hold none, or are missing; years in and out of 2015..2024
TechSamples ==
  {
    Row(1, <<"K","y","o","c","e","r","a">>,
        <<"C","e","r","a","m","i","c"," ","c","h","u","c","k">>,
        <<"c","e","r","a","m","i","c"," ","c","e","r","a","m","i","c"," ","c","e","r","a","m","i","c"," ","c","o","a","t","i","n","g">>, 2019, <<"J","P">>),
    Row(1, <<"T","O","T","O"," ","L","T","D">>,
        <<"T","h","e","r","m","a","l"," ","c","o","n","t","r","o","l">>,
        <<"t","e","m","p","e","r","a","t","u","r","e"," ","s","e","n","s","o","r"," ","f","e","e","d","b","a","c","k">>, 2019, <<"U","S">>),
    Row(1, <<"a","c","m","e">>,
        NaN,
        NaN, 2021, <<"U","S">>),
    Row(1, <<"K","y","o","c","e","r","a">>,
        <<"P","l","a","s","m","a"," ","e","t","c","h","i","n","g">>,
        <<>>, 2021, <<"J","P">>),
    Row(1, <<"L","a","m"," ","R","e","s","e","a","r","c","h">>,
        <<"H","e","a","t">>,
        <<"h","e","a","t"," ","h","e","a","t">>, NaT, <<"U","S">>),
    Row(1, <<"a","c","m","e">>,
        <<"W","a","f","e","r"," ","h","o","l","d","e","r">>,
        <<"f","l","e","x","i","b","l","e"," ","f","i","l","m">>, 2012, <<"J","P">>) }

InitTech ==
  /\ df \in {Numbered(rows) : rows \in SeqsUpTo(TechSamples, MaxTechRows) \ {<< >>}}
  /\ pc = StartPc
  /\ NoResults

NextTech ==
  \/ NormalizeCompanyNames
  \/ AnalyzeData
  \/ ReadCsv
  \/ ClassifyOrganizations
  \/ UniversityRankingAnalysis
  \/ TechnologyTrendAnalysis
  \/ TechnologyFocusAnalysis
  \/ ShowTechnologyTrends

SpecTech == InitTech /\ [][NextTech]_vars

\* assignee strings: three co-filers in several orders, two co-filers in both
\* orders, one assignee, a stray delimiter, one company named twice, missing
CollabSamples ==
  {
    <<"K","y","o","c","e","r","a",";"," ","T","O","T","O",";"," ","a","c","m","e">>,
    <<"a","c","m","e",";"," ","T","O","T","O",";"," ","K","y","o","c","e","r","a">>,
    <<"T","O","T","O",";"," ","a","c","m","e",";"," ","K","y","o","c","e","r","a">>,
    <<"K","y","o","c","e","r","a",";"," ","T","O","T","O">>,
    <<"T","O","T","O",";"," ","K","y","o","c","e","r","a">>,
    <<"a","c","m","e",";","K","y","o","c","e","r","a">>,
    <<"K","y","o","c","e","r","a">>,
    <<"K","y","o","c","e","r","a",";">>,
    <<"K","y","o","c","e","r","a",";"," ","K","y","o","c","e","r","a">>,
    <<"K","y","o","c","e","r","a",";"," ","T","O","T","O",";"," ","K","y","o","c","e","r","a">>,
    NaN }

InitCollab ==
  /\ df \in {Numbered(rows) :
              rows \in SeqsUpTo({AssigneeRow(a) : a \in CollabSamples}, MaxCollabRows) \ {<< >>}}
  /\ pc = StartPc
  /\ NoResults

NextCollab ==
  \/ NormalizeCompanyNames
  \/ AnalyzeData
  \/ ReadCsv
  \/ ClassifyOrganizations
  \/ UniversityRankingAnalysis
  \/ TechnologyTrendAnalysis
  \/ CollaborationNetworkAnalysis

SpecCollab == InitCollab /\ [][NextCollab]_vars

\* records of three years or of no date, with abstracts of two technologies
GrowthSamples ==
  { Row(1, <<"a","c","m","e">>, NaN, abstract, year, NaN) :
      abstract \in {<<"c","e","r","a","m","i","c"," ","f","i","l","m">>,
                    <<"h","e","a","t">>},
      year \in {2019, 2020, 2021, NaT} }

InitGrowth ==
  /\ df \in {Numbered(rows) : rows \in SeqsUpTo(GrowthSamples, MaxGrowthRows) \ {<< >>}}
  /\ pc = StartPc
  /\ NoResults

NextGrowth ==
  \/ ShowTechnologyTrends
  \/ ShowTimelineAnalysis

SpecGrowth == InitGrowth /\ [][NextGrowth]_vars

\* records of target companies, of a university and of others; with years in
\* and out of 2015..2024, without a date and with a date that is none; filed
\* in Japan and abroad, with short and long publication numbers
PipelineSamples ==
  {
    Row(<<"J","P","-","1">>, <<"K","y","o","c","e","r","a">>,
        <<"C","e","r","a","m","i","c"," ","c","h","u","c","k">>, NaN, 2019, <<"J","P">>),
    Row(<<"U","S","-","2","0","2","1","0","0","0","0","0","1","-","A","1">>, <<"T","O","T","O"," ","L","T","D">>,
        <<"T","h","e","r","m","a","l"," ","c","o","n","t","r","o","l">>, <<"t","h","e","r","m","a","l"," ","s","e","n","s","o","r">>, 2021, <<"U","S">>),
    Row(<<"J","P","-","2">>, <<"a","c","m","e"," ","U","n","i","v","e","r","s","i","t","y">>,
        NaN, NaN, 2019, <<"J","P">>),
    Row(<<"J","P","-","3">>, <<"K","y","o","c","e","r","a">>,
        <<"W","a","f","e","r"," ","h","o","l","d","e","r">>, <<>>, BadDate, <<"J","P">>),
    Row(<<"U","S","-","3">>, <<"a","c","m","e">>,
        <<"P","l","a","s","m","a"," ","e","t","c","h","i","n","g">>, NaN, NaT, <<"U","S">>),
    Row(<<"E","P","-","4">>, <<"T","O","T","O">>,
        <<"C","e","r","a","m","i","c"," ","c","h","u","c","k">>, <<"c","e","r","a","m","i","c">>, 2012, NaN) }

\* the fetch delivers no record or up to MaxPipelineRows of the samples
InitPipeline ==
  /\ df \in SeqsUpTo(PipelineSamples, MaxPipelineRows)
  /\ pc = StartPc
  /\ NoResults

NextPipeline ==
  \/ RunAnalysisNoData
  \/ NormalizeCompanyNames
  \/ AnalyzeData
  \/ ReadCsv
  \/ ClassifyOrganizations
  \/ UniversityRankingAnalysis
  \/ TechnologyTrendAnalysis
  \/ TechnologyFocusAnalysis
  \/ InnovationTimelineAnalysis
  \/ MarketStrategyAnalysis

SpecPipeline == InitPipeline /\ [][NextPipeline]_vars

\* the dashboard alone: the folder holds no file or one chunk file of up to
\* MaxLoadRows of the samples
InitLoad ==
  /\ df = << >>
  /\ pc = [StartPc EXCEPT !.curved = "off", !.dashboard = "off",
                          !.app = "start", !.collector = "idle"]
  /\ tech_trends = << >>
  /\ company_tech_scores = << >>
  /\ yearly_tech_trends = << >>
  /\ growth_rates = << >>
  /\ total_growth = << >>
  /\ collaboration_patents = << >>
  /\ collaboration_pairs = << >>
  /\ divided_by_zero = FALSE
  /\ drive \in {IF rows = << >> THEN << >>
                 ELSE save_to_google_drive(rows, << >>, TRUE, 0).files :
                 rows \in SeqsUpTo(PipelineSamples, MaxLoadRows)}
  /\ company_ranking = << >>
  /\ yearly_trend = << >>
  /\ academic_rankings = << >>
  /\ timeline_df = << >>
  /\ global_companies = << >>
  /\ all_data = << >>
  /\ org_stats = << >>
  /\ comparison_df = << >>
  /\ radar = << >>
  /\ collection = << >>
  /\ company_counts = << >>
  /\ all_patents = << >>
  /\ request = << >>
  /\ saved = << >>
  /\ emerging_keywords = << >>

NextLoad ==
  \/ LoadAllPatentData
  \/ ExecuteNoData
  \/ ShowTechnologyTrends
  \/ ShowTimelineAnalysis

SpecLoad == InitLoad /\ [][NextLoad]_vars

(* ----------------------------- the collector ------------------------------ *)
\* a new collector, an empty Drive folder
InitCollector ==
  /\ df = << >>
  /\ pc = [StartPc EXCEPT !.curved = "off", !.dashboard = "off", !.app = "start",
                          !.collector = "idle"]
  /\ NoResults

\* one run in any surroundings, and the load of what it stored
NextCollector ==
  \/ CollectRealPatents
  \/ LoadAllPatentData

SpecCollector == InitCollector /\ [][NextCollector]_vars

\* up to MaxRuns runs that store their records, and the load of the folder
NextDrive ==
  \/ CollectAndSave
  \/ NewCollector
  \/ LoadAllPatentData

SpecDrive == InitCollector /\ [][NextDrive]_vars

(* ---------------------- the ratios of the three modules ------------------- *)
RatioSamples ==
  {
    [Row(<<"J","P","-","1">>, <<"K","y","o","c","e","r","a">>,
         NaN, <<"c","u","r","v","e","d"," ","c","h","u","c","k">>, 2019, <<"J","P">>)
       EXCEPT !.inventors = <<"a", "b">>],
    [Row(<<"J","P","-","2">>, <<"K","y","o","c","e","r","a">>,
         NaN, <<"c","h","u","c","k">>, 2021, <<"J","P">>)
       EXCEPT !.inventors = NaN],
    [Row(<<"J","P","-","3">>, <<"T","O","T","O"," ","L","T","D">>,
         NaN, NaN, NaT, <<"J","P">>)
       EXCEPT !.inventors = << >>],
    [Row(<<"J","P","-","4">>, <<"a","c","m","e"," ","U","n","i","v","e","r","s","i","t","y">>,
         NaN, <<>>, 2024, <<"J","P">>)
       EXCEPT !.inventors = <<"c">>]
  }

InitRatios ==
  /\ df \in SeqsUpTo(RatioSamples, MaxRatioRows)
  /\ pc = [StartPc EXCEPT !.curved = "off", !.dashboard = "off", !.app = "loaded",
                          !.advanced = "loaded", !.collector = "idle"]
  /\ NoResults

NextRatios ==
  \/ ShowCompetitiveAnalysis
  \/ ClassifyOrganizations
  \/ CollectWithoutDrive

SpecRatios == InitRatios /\ [][NextRatios]_vars

(* ------------------------- the dashboard overview ------------------------- *)
\* assignees that spell two known companies in several ways, one that names
\* two of them, an unknown company and a missing name
DashAssignees ==
  { <<"K","Y","O","C","E","R","A"," ","C","O","R","P">>, <<"K","y","o","c","e","r","a">>, <<" ","k","y","o","c","e","r","a"," ">>, <<"T","o","t","o"," ","L","t","d">>, <<"T","O","T","O">>,
    <<"K","y","o","c","e","r","a"," ","T","o","t","o">>, <<"a","c","m","e">>, NaN }

InitDash ==
  /\ df \in {[i \in DOMAIN names |-> AssigneeRow(names[i])] :
               names \in SeqsUpTo(DashAssignees, MaxDashRows) \ {<< >>}}
  /\ pc = [StartPc EXCEPT !.curved = "off", !.app = "off"]
  /\ NoResults

NextDash ==
  \/ DashNormalize
  \/ OverviewAnalysis

SpecDash == InitDash /\ [][NextDash]_vars

(* ------------------------------ the connector ----------------------------- *)
\* limits that give the sources no, some and more records than the limit
Limits == {0, MaxPageRows + 2, 3 * MaxPageRows}

\* the years of the start dates asked for
StartYears == {2015, 2020}

InitConnector ==
  /\ df = << >>
  /\ pc = [StartPc EXCEPT !.curved = "off", !.dashboard = "off", !.app = "off",
                          !.connector = "start"]
  /\ all_patents = << >>
  /\ request \in [start_date : StartYears, limit : Limits, use_sample : BOOLEAN, queries : {0}]
  /\ tech_trends = << >>
  /\ company_tech_scores = << >>
  /\ yearly_tech_trends = << >>
  /\ growth_rates = << >>
  /\ total_growth = << >>
  /\ collaboration_patents = << >>
  /\ collaboration_pairs = << >>
  /\ divided_by_zero = FALSE
  /\ company_ranking = << >>
  /\ yearly_trend = << >>
  /\ academic_rankings = << >>
  /\ timeline_df = << >>
  /\ global_companies = << >>
  /\ all_data = << >>
  /\ org_stats = << >>
  /\ comparison_df = << >>
  /\ radar = << >>
  /\ collection = << >>
  /\ company_counts = << >>
  /\ drive = << >>
  /\ saved = << >>
  /\ emerging_keywords = << >>

NextConnector ==
  \/ SearchUsptoBulkData
  \/ ScrapeGooglePatents
  \/ SearchArxivPatents
  \/ ProcessPatents
  \/ ReturnPatents
  \/ ReturnDemoData

SpecConnector == InitConnector /\ [][NextConnector]_vars


(* ------------------------- the whole advanced run ------------------------- *)
\* records of a company and of a university, filed before 2015, in 2015-2019
\* and in 2020-2024
ReportSamples ==
  { Row(1, <<"K","y","o","c","e","r","a">>, <<"W","a","f","e","r"," ","h","o","l","d","e","r">>, <<"f","l","e","x","i","b","l","e"," ","f","i","l","m">>, 2012, <<"J","P">>),
    Row(1, <<"T","O","T","O"," ","L","t","d">>, <<"C","u","r","v","e","d"," ","c","h","u","c","k">>, <<"c","u","r","v","e","d"," ","s","u","r","f","a","c","e"," ","c","h","u","c","k">>, 2016, <<"J","P">>),
    Row(1, <<"a","c","m","e"," ","U","n","i","v","e","r","s","i","t","y">>, <<"P","l","a","s","m","a"," ","e","t","c","h","i","n","g">>, NaN, 2019, <<"U","S">>),
    Row(1, <<"K","y","o","c","e","r","a">>, <<"C","u","r","v","e","d"," ","c","h","u","c","k">>, <<"p","l","a","s","m","a"," ","c","h","u","c","k">>, 2021, <<"J","P">>),
    Row(1, <<"T","o","k","y","o"," ","R","e","s","e","a","r","c","h"," ","I","n","s","t","i","t","u","t","e">>, NaN, <<"h","e","a","t"," ","c","o","n","t","r","o","l">>, 2023, <<"U","S">>) }

InitReport ==
  /\ df \in {Numbered(rows) : rows \in SeqsUpTo(ReportSamples, MaxReportRows) \ {<< >>}}
  /\ pc = StartPc
  /\ NoResults

NextReport ==
  \/ NormalizeCompanyNames
  \/ AnalyzeData
  \/ ReadCsv
  \/ ClassifyOrganizations
  \/ UniversityRankingAnalysis
  \/ TechnologyTrendAnalysis
  \/ CollaborationNetworkAnalysis
  \/ EmergingTechnologyDetection
  \/ CreateAdvancedVisualizations
  \/ GenerateComprehensiveReport

SpecReport == InitReport /\ [][NextReport]_vars

(* ----------------------- the variants of the mapping ---------------------- *)
\* the variants listed in company_mapping
ListedVariants ==
  UNION {{company_mapping[e].variants[v] : v \in DOMAIN company_mapping[e].variants} :
           e \in DOMAIN company_mapping}

\* assignees that no variant occurs in
UnlistedAssignees == {<<"a","c","m","e">>, <<"N","i","k","o","n"," ","C","o","r","p">>, <<"C","a","n","o","n"," ","I","n","c">>}

\* up to MaxMappingRows fetched records, each assignee a listed variant or an
\* unlisted name
InitMapping ==
  /\ df \in {[i \in DOMAIN names |-> AssigneeRow(names[i])] :
               names \in SeqsUpTo(ListedVariants \cup UnlistedAssignees, MaxMappingRows) \ {<< >>}}
  /\ pc = StartPc
  /\ NoResults

NextMapping ==
  \/ NormalizeCompanyNames

SpecMapping == InitMapping /\ [][NextMapping]_vars


(* ------------------------------- claims ---------------------------------- *)
\* the records of a year, and the target records of a company
RecordsOfYear(year) == {i \in DOMAIN df : df[i].filing_date = year}

RecordsOfCompany(company) ==
  {i \in DOMAIN df : df[i].normalized_assignee = company}

\* the records of a set whose title or abstract holds a keyword of the list
RecordsWithKeyword(keywords, rows) ==
  {i \in rows : \E k \in DOMAIN keywords :
                  Contains(lower(keywords[k]), lower(str(df[i].title) \o <<" ">> \o str(df[i].abstract)))}

ListedNames ==
  UNION {{collaboration_patents[p].assignees[i] : i \in DOMAIN collaboration_patents[p].assignees} :
           p \in DOMAIN collaboration_patents}

Listings(x, y) ==
  {<<p, i, j>> \in pair_positions(collaboration_patents) :
     {collaboration_patents[p].assignees[i], collaboration_patents[p].assignees[j]} = {x, y}}

PairCount(key) == IF key \in DOMAIN collaboration_pairs THEN collaboration_pairs[key] ELSE 0

\* C7: a record with three distinct assignees A, B, C adds 1 to each of the
\* pairs {A,B}, {A,C}, {B,C} and to no other; every key is sorted, so that the
\* listings of two names, in any order and from any records, are counted in
\* one bucket
C7_CoFilingPairs ==
  pc.advanced = "collab" =>
    /\ \A key \in DOMAIN collaboration_pairs : ~str_less(key[2], key[1])
    /\ \A x \in ListedNames : \A y \in ListedNames \ {x} :
         /\ PairCount(<<x, y>>) + PairCount(<<y, x>>) = Cardinality(Listings(x, y))
         /\ PairCount(<<x, y>>) = 0 \/ PairCount(<<y, x>>) = 0
    /\ \A p \in DOMAIN collaboration_patents :
         LET a == collaboration_patents[p].assignees
         IN  (Len(collaboration_patents) = 1 /\ Len(a) = 3 /\ Cardinality({a[1], a[2], a[3]}) = 3)
             => /\ {{key[1], key[2]} : key \in DOMAIN collaboration_pairs}
                     = {{a[1], a[2]}, {a[1], a[3]}, {a[2], a[3]}}
                /\ Cardinality(DOMAIN collaboration_pairs) = 3
                /\ \A key \in DOMAIN collaboration_pairs : collaboration_pairs[key] = 1

\* two records list the same two names in opposite orders and one bucket
\* counts both; a record of three distinct names has run too
C7_Witness ==
  /\ pc.advanced = "collab"
  /\ Len(collaboration_patents) = 2
  /\ Len(collaboration_patents[1].assignees) = 3
  /\ Cardinality({collaboration_patents[1].assignees[i] : i \in 1..3}) = 3
  /\ Len(collaboration_patents[2].assignees) = 2
  /\ collaboration_patents[2].assignees[1] = collaboration_patents[1].assignees[3]
  /\ collaboration_patents[2].assignees[2] = collaboration_patents[1].assignees[1]
  /\ \E key \in DOMAIN collaboration_pairs : collaboration_pairs[key] = 2

\* C8: the co-filing pair table never holds a self-pair (X, X), also when a
\* record names the same company twice
C8_NoSelfPair ==
  pc.advanced = "collab" =>
    \A key \in DOMAIN collaboration_pairs : key[1] # key[2]

\* C9: a record that names a single assignee contributes no pair, also when
\* its string carries a stray delimiter: every co-filed record names more than
\* one assignee and no pair has an empty partner
C9_SingleAssigneeNoPair ==
  pc.advanced = "collab" =>
    /\ \A p \in DOMAIN collaboration_patents :
         Cardinality({i \in DOMAIN collaboration_patents[p].assignees :
                        collaboration_patents[p].assignees[i] # << >>}) > 1
    /\ \A key \in DOMAIN collaboration_pairs : key[1] # << >> /\ key[2] # << >>

\* C10: the growth rates never divide by a zero early value: a technology
\* whose first three years sum to zero is left out of the growth table, every
\* rate in the table has a nonzero divisor, and the total growth of the
\* timeline is 0 or has a nonzero divisor
C10_NoDivisionByZero ==
  /\ ~divided_by_zero
  /\ pc.app = "trends" =>
       /\ \A t \in DOMAIN growth_rates : growth_rates[t].den # 0
       /\ \A t \in DOMAIN tech_keywords :
            (Len(yearly_tech_trends) > 1 /\ early_sum(yearly_tech_trends, t) = 0)
              => t \notin DOMAIN growth_rates
  /\ pc.app = "timeline" =>
       \A k \in DOMAIN total_growth : total_growth[k].den # 0

\* the trend table has two years or more, one technology with no occurrence
\* in its early years and so no growth rate, and one with a growth rate
C10_Witness ==
  /\ pc.app = "trends"
  /\ Len(yearly_tech_trends) > 1
  /\ \E t \in DOMAIN tech_keywords :
       early_sum(yearly_tech_trends, t) = 0 /\ t \notin DOMAIN growth_rates
  /\ DOMAIN growth_rates # {}

\* the entries of the dashboard table whose key occurs in the upper-cased name
DashHits(raw) ==
  {k \in DOMAIN dash_company_mapping : Contains(dash_company_mapping[k].key, upper(raw))}

\* the entries of the batch table one of whose variants occurs in the name
BatchHits(raw) ==
  {e \in DOMAIN company_mapping :
     \E v \in DOMAIN company_mapping[e].variants :
        ContainsNoCase(company_mapping[e].variants[v], raw)}

HasUniversityKeyword(name) ==
  \E k \in DOMAIN university_keywords : Contains(university_keywords[k], upper(name))

HasResearchKeyword(name) ==
  \E k \in DOMAIN research_keywords : Contains(research_keywords[k], upper(name))

\* the type the ordered scan gives a name: university, then research, then company
ScanType(name) ==
  IF HasUniversityKeyword(name) THEN "University"
  ELSE IF HasResearchKeyword(name) THEN "Research Institute" ELSE "Company"

\* C2: canonicalization is first-match-wins over the ordered table: an assignee
\* holding keywords or variants of two or more entries gets the canonical name of
\* the earliest such entry, in normalize_company_name and in normalize_company_names
C2_FirstMatchWins ==
  \A i \in DOMAIN df :
    LET raw == df[i].assignee IN
      ~isna(raw) =>
        /\ (pc.dashboard = "normalized" /\ Cardinality(DashHits(raw)) >= 2)
             => df[i].company_normalized = dash_company_mapping[Min(DashHits(raw))].value
        /\ (pc.curved # "fetched" /\ Cardinality(BatchHits(raw)) >= 2)
             => df[i].normalized_assignee = company_mapping[Min(BatchHits(raw))].normalized

\* both normalizers have run on an assignee naming two entries of each table
C2_Witness ==
  /\ pc.dashboard = "normalized"
  /\ pc.curved = "normalized"
  /\ \E i \in DOMAIN df :
       /\ ~isna(df[i].assignee)
       /\ Cardinality(DashHits(df[i].assignee)) >= 2
       /\ Cardinality(BatchHits(df[i].assignee)) >= 2
       /\ Min(DashHits(df[i].assignee)) > 1

\* C3: a classified name with a university keyword is University even when it
\* also holds a research keyword; with a research keyword only it is Research
\* Institute; with neither it is Company
C3_UniversityBeforeResearch ==
  pc.advanced = "classified" =>
    \A i \in DOMAIN df :
      LET name == df[i].normalized_assignee IN
        ~isna(name) =>
          /\ HasUniversityKeyword(name) => df[i].org_type = "University"
          /\ (~HasUniversityKeyword(name) /\ HasResearchKeyword(name))
               => df[i].org_type = "Research Institute"
          /\ (~HasUniversityKeyword(name) /\ ~HasResearchKeyword(name))
               => df[i].org_type = "Company"

\* a name holding both kinds of keyword has been classified
C3_Witness ==
  /\ pc.advanced = "classified"
  /\ \E i \in DOMAIN df :
       /\ ~isna(df[i].normalized_assignee)
       /\ HasUniversityKeyword(df[i].normalized_assignee)
       /\ HasResearchKeyword(df[i].normalized_assignee)
       /\ df[i].org_type = "University"

\* C4 as stated: the organization type of every record is the keyword scan of
\* its raw assignee, not of the canonical name
C4_OrgTypeFromRaw ==
  pc.advanced = "classified" =>
    \A i \in DOMAIN df : df[i].org_type = classify_org(df[i].assignee)

\* C4 amended: the organization type is the keyword scan of the canonical name
\* (normalized_assignee); it is the scan of the raw assignee for the records
\* whose name canonicalization left unchanged
C4_OrgTypeFromCanonical ==
  pc.advanced = "classified" =>
    \A i \in DOMAIN df :
      /\ ~isna(df[i].normalized_assignee)
           => df[i].org_type = ScanType(df[i].normalized_assignee)
      /\ isna(df[i].normalized_assignee) => df[i].org_type = "Unknown"
      /\ (df[i].assignee = df[i].normalized_assignee /\ ~isna(df[i].assignee))
           => df[i].org_type = ScanType(df[i].assignee)

\* a classified record whose raw assignee holds a type keyword that the
\* canonical name no longer holds
C4_Witness ==
  /\ pc.advanced = "classified"
  /\ \E i \in DOMAIN df :
       /\ ~isna(df[i].assignee)
       /\ ~isna(df[i].normalized_assignee)
       /\ HasUniversityKeyword(df[i].assignee)
       /\ ~HasUniversityKeyword(df[i].normalized_assignee)
       /\ df[i].org_type = "Company"

\* C5: the organization type depends only on the canonical company name: two
\* records with the same normalized_assignee have the same org_type, whatever
\* their raw assignee, title, abstract, date or country
C5_OrgTypeDependsOnCanonicalOnly ==
  pc.advanced = "classified" =>
    \A i, j \in DOMAIN df :
      df[i].normalized_assignee = df[j].normalized_assignee
        => df[i].org_type = df[j].org_type

\* two classified records with one canonical name, whose raw assignees give
\* different types, and whose other fields differ
C5_Witness ==
  /\ pc.advanced = "classified"
  /\ \E i, j \in DOMAIN df :
       /\ df[i].normalized_assignee = df[j].normalized_assignee
       /\ ~isna(df[i].assignee) /\ ~isna(df[j].assignee)
       /\ ScanType(df[i].assignee) # ScanType(df[j].assignee)
       /\ df[i].title # df[j].title
       /\ df[i].filing_date # df[j].filing_date
       /\ df[i].country_code # df[j].country_code

\* C6: a record whose assignee is missing or empty gets the canonical name
\* "Unknown" and the organization type Unknown
C6_MissingAssigneeIsUnknown ==
  pc.advanced = "classified" =>
    \A i \in DOMAIN df :
      (isna(df[i].assignee) \/ df[i].assignee = << >>)
        => /\ df[i].normalized_assignee = Unknown
           /\ df[i].org_type = "Unknown"


\* the rows whose filing date is a date
Dated(rows) == {i \in DOMAIN rows : rows[i].filing_date \notin {NaT, BadDate}}

\* C11: a record whose filing date cannot be parsed never stops the analysis
\* and is not dropped: it is left out of the yearly aggregate and counted in
\* the company ranking
C11_UnparseableDateKept ==
  /\ pc.curved # "raised"
  /\ pc.advanced # "raised"
  /\ company_ranking # << >> =>
       /\ Sum([k \in DOMAIN company_ranking |-> company_ranking[k].count],
              DOMAIN company_ranking) = Len(df)
       /\ Sum([k \in DOMAIN yearly_trend |-> yearly_trend[k].size],
              DOMAIN yearly_trend) = Cardinality(Dated(df))

\* C12: no aggregate fails on an empty collection: the company ranking, the
\* academic ranking and the timeline of important patents are empty when no
\* record matches, and no operation raises
C12_EmptyAggregatesDoNotFail ==
  (\A i \in DOMAIN df : df[i].filing_date # BadDate) =>
    /\ pc.curved # "raised"
    /\ pc.advanced # "raised"
    /\ pc.target # "raised"
    /\ (pc.advanced \in {"ranked", "trend"}
        /\ \A i \in DOMAIN df : df[i].org_type = "Company")
         => academic_rankings = [university |-> << >>, research |-> << >>]

\* C14: the yearly count holds exactly the years that have a record, in
\* ascending order, each with its number of records; the technology trend
\* table holds for every category exactly the years 2015..2024, with the
\* number of matching records of that year (0 when there is none), and so
\* counts no record filed outside 2015..2024
C14_YearlySeriesNotInterpolated ==
  /\ yearly_trend # << >> =>
       /\ {yearly_trend[k].year : k \in DOMAIN yearly_trend}
            = {df[i].filing_date : i \in Dated(df)}
       /\ \A k \in DOMAIN yearly_trend :
            /\ k > 1 => yearly_trend[k - 1].year < yearly_trend[k].year
            /\ yearly_trend[k].size = Cardinality(RecordsOfYear(yearly_trend[k].year))
            /\ yearly_trend[k].size > 0
  /\ pc.advanced = "trend" =>
       \A c \in DOMAIN tech_trends :
         /\ DOMAIN tech_trends[c].yearly_counts = 2015..2024
         /\ \A year \in 2015..2024 :
              tech_trends[c].yearly_counts[year] =
                Cardinality(RecordsWithKeyword(tech_categories[c].keywords, RecordsOfYear(year)))
         /\ Sum(tech_trends[c].yearly_counts, 2015..2024) =
              Cardinality(RecordsWithKeyword(tech_categories[c].keywords,
                                             {i \in DOMAIN df : df[i].filing_date \in 2015..2024}))

\* the yearly count skips the years 2013..2018, and the trend table has run
\* over a record of 2012 that holds a keyword
C14_Witness ==
  /\ pc.advanced = "trend"
  /\ Len(yearly_trend) = 2
  /\ yearly_trend[1].year = 2012
  /\ yearly_trend[2].year = 2019
  /\ \E c \in DOMAIN tech_trends :
       /\ RecordsWithKeyword(tech_categories[c].keywords, RecordsOfYear(2012)) # {}
       /\ tech_trends[c].yearly_counts[2019] = 1
       /\ tech_trends[c].yearly_counts[2015] = 0
\* C13: every division of show_competitive_analysis (yearly average,
\* diversity, collaboration index, radar normalisation), of the shares of
\* classify_organizations and of collect_real_patents (quota, success rate)
\* has a divisor other than zero, so that no step divides by zero.
C13_NoRatioDividesByZero ==
  /\ ~divided_by_zero
  /\ \A k \in DOMAIN comparison_df :
       /\ comparison_df[k].yearly_average.den # 0
       /\ comparison_df[k].diversity.den # 0
       /\ comparison_df[k].collaboration.den # 0
  /\ \A k \in DOMAIN radar : \A m \in 1..4 : radar[k][m].den # 0
  /\ \A k \in DOMAIN org_stats : org_stats[k].percentage.den # 0
  /\ pc.collector = "collected" => collection.success_rate.den # 0

\* a company without any dated record and another one, compared and
\* normalised, next to the shares and a collection run without success
C13_Witness ==
  /\ pc.app = "competitive"
  /\ Len(comparison_df) = 2
  /\ \E k \in DOMAIN comparison_df : comparison_df[k].recency = nan
  /\ \E k \in DOMAIN radar : radar[k][1] = float(1, 2)
  /\ org_stats # << >>
  /\ pc.collector = "collected" /\ collection.collected = 0

\* the positions of the keys that occur in an assignee, compared without
\* regard to letter case
KeysIn(assignee) ==
  IF isna(assignee) THEN {}
  ELSE {k \in DOMAIN dash_company_mapping :
          \E i \in 1..(Len(assignee) - Len(dash_company_mapping[k].key) + 1) :
            \A j \in 1..Len(dash_company_mapping[k].key) :
              lower_char(assignee[i + j - 1]) = lower_char(dash_company_mapping[k].key[j])}

\* the canonical name of the first key that occurs in an assignee
CanonicalOf(assignee) == dash_company_mapping[Min(KeysIn(assignee))].value

SearchText(row) ==
  (IF isna(row.title) THEN << >> ELSE row.title) \o <<" ">> \o
  (IF isna(row.abstract) THEN << >> ELSE row.abstract)

\* a keyword occurs in a text at some position, letter case ignored
Occurs(keyword, text) ==
  \E i \in 1..(Len(text) - Len(keyword) + 1) :
    \A j \in 1..Len(keyword) : lower_char(text[i + j - 1]) = lower_char(keyword[j])

\* the records of a set to which a category is attributed
Attributed(keywords, rows) ==
  {i \in rows : \E k \in DOMAIN keywords : Occurs(keywords[k], SearchText(df[i]))}

\* C16: a record counts for a category exactly when one of the category's
\* keywords occurs, letter case ignored, in its title and abstract joined,
\* where a missing title or abstract counts as the empty string; a record
\* without any keyword counts for no category.  Checked on the yearly counts
\* of technology_trend_analysis and on the company scores of
\* technology_focus_analysis.
C16_CategoryIffKeyword ==
  /\ pc.advanced = "trend" =>
       \A c \in DOMAIN tech_categories : \A year \in TrendFirstYear..TrendLastYear :
         tech_trends[c].yearly_counts[year] =
           Cardinality(Attributed(tech_categories[c].keywords,
                                  {i \in DOMAIN df : df[i].filing_date = year}))
  /\ pc.target = "focus" =>
       \A t \in DOMAIN all_targets : \A a \in DOMAIN focus_tech_keywords :
         LET records == Attributed(focus_tech_keywords[a].keywords,
                                   {i \in DOMAIN df : df[i].normalized_assignee = all_targets[t]})
         IN  IF records = {}
             THEN <<all_targets[t], a>> \notin DOMAIN company_tech_scores
             ELSE /\ <<all_targets[t], a>> \in DOMAIN company_tech_scores
                  /\ company_tech_scores[<<all_targets[t], a>>] = Cardinality(records)

\* both tallies have run over a record without title and abstract, which no
\* category of its year counts, and a record whose title holds a keyword in
\* another letter case
C16_Witness ==
  /\ pc.advanced = "trend"
  /\ pc.target = "focus"
  /\ \E i \in DOMAIN df :
       /\ isna(df[i].title) /\ isna(df[i].abstract)
       /\ df[i].filing_date \in TrendFirstYear..TrendLastYear
       /\ \A c \in DOMAIN tech_categories :
            tech_trends[c].yearly_counts[df[i].filing_date] <
              Cardinality({j \in DOMAIN df : df[j].filing_date = df[i].filing_date})
  /\ \E i \in DOMAIN df : \E a \in DOMAIN focus_tech_keywords :
       /\ keyword_hits(focus_tech_keywords[a].keywords, record_text(df[i])) # {}
       /\ keyword_hits_cased(focus_tech_keywords[a].keywords, record_text(df[i])) = {}
       /\ <<df[i].normalized_assignee, a>> \in DOMAIN company_tech_scores

\* the values classify_org can return
OrgTypes == {"Company", "University", "Research Institute", "Unknown"}

\* C17: for every assignee (missing, empty, without a known keyword,
\* non-ASCII) the two normalizations return a name, the classification
\* returns one of Company, University, Research Institute, Unknown, and none
\* of them stops the script that calls it.
C17_NormalizationTotal ==
  /\ \A script \in DOMAIN pc : pc[script] # "raised"
  /\ (pc.curved \in {"normalized", "analyzed"} /\ pc.advanced = "start") =>
       \A i \in DOMAIN df : ~isna(df[i].normalized_assignee)
  /\ pc.dashboard = "normalized" =>
       \A i \in DOMAIN df : ~isna(df[i].company_normalized)
  /\ pc.advanced = "classified" =>
       \A i \in DOMAIN df : df[i].org_type \in OrgTypes

\* a non-ASCII name, a variant of one mapping and unknown to the other, has
\* been normalized twice and classified
C17_Witness ==
  /\ pc.advanced = "classified"
  /\ pc.dashboard = "normalized"
  /\ df[1].assignee = <<"u4EAC","u30BB","u30E9">>
  /\ df[1].normalized_assignee = <<"K","Y","O","C","E","R","A">>
  /\ df[1].company_normalized = <<"u4EAC","u30BB","u30E9">>
  /\ df[1].org_type = "Company"

\* the rows of a dataframe in every order
Reorderings(rows) ==
  {[i \in DOMAIN rows |-> rows[p[i]]] :
     p \in {q \in [DOMAIN rows -> DOMAIN rows] : \A i, j \in DOMAIN rows : i # j => q[i] # q[j]}}

\* the company -> count mapping of a ranking
CountsOf(ranking) == {<<ranking[k].value, ranking[k].count>> : k \in DOMAIN ranking}

\* the ranking analyze_data computes from the rows
RankingOf(rows) ==
  head(value_counts([i \in DOMAIN rows |-> rows[i].normalized_assignee]), RankingSize)

\* C18: the company ranking of analyze_data and the global-expansion ranking
\* of market_strategy_analysis are the same for every order of the records:
\* the same counts, the same entries, in the same order, ties included.
C18_RankingsOrderIndependent ==
  /\ (pc.curved = "analyzed" /\ pc.advanced = "start") =>
       \A shuffled \in Reorderings(df) :
         /\ CountsOf(RankingOf(shuffled)) = CountsOf(company_ranking)
         /\ RankingOf(shuffled) = company_ranking
  /\ pc.target = "market" =>
       \A shuffled \in Reorderings(df) :
         sort_by_countries(global_entries(shuffled, 1)) = global_companies

\* C19: search_esc_patents with use_sample=False always completes: no
\* outcome of a request (an exception, a time-out, a status other than 200)
\* stops the call with an error, and what it returns is never empty.
C19_SearchAlwaysCompletes ==
  /\ pc.connector # "raised"
  /\ pc.connector = "returned" => df # << >>

\* C20: the dataframe search_patents_api returns has no publication number
\* twice, only filing dates that are dates not earlier than start_date, its
\* rows by descending filing date, and at most limit rows.
C20_ReturnedDataframe ==
  pc.connector = "processed" =>
    /\ \A i, j \in DOMAIN df : i # j => df[i].publication_number # df[j].publication_number
    /\ \A i \in DOMAIN df : df[i].filing_date \notin {NaT, BadDate}
    /\ \A i \in DOMAIN df : df[i].filing_date >= request.start_date
    /\ \A i, j \in DOMAIN df : i < j => df[i].filing_date >= df[j].filing_date
    /\ Len(df) <= request.limit

\* the sources found more records than the limit, none of them twice or
\* filed before the start date, and the limit cut the result
C20_Witness ==
  /\ pc.connector = "processed"
  /\ request.limit > 0
  /\ Len(all_patents) > request.limit
  /\ Len(df) = request.limit


\* the numbers of a plan
Planned(plan) == {plan[i] : i \in DOMAIN plan}

\* C21: for every collection mode the plan takes total_patents // companies
\* patents from each selected company, tops up the remainder from the first
\* company and has exactly total_patents entries; in the all-patents mode it
\* covers every patent number of all_patents.
C21_PlanOfEveryMode ==
  pc.collector = "collected" =>
    LET config == mode_config[collection.mode]
        plan == collection.patents_to_collect
        quota == config.total_patents \div config.companies
        remainder == config.total_patents - config.companies * quota
    IN  /\ collection.patents_per_company = quota
        /\ \A k \in 1..config.companies :
             SubSeq(plan, (k - 1) * quota + 1, k * quota) = head(real_patents[k].patents, quota)
        /\ SubSeq(plan, config.companies * quota + 1, Len(plan))
             = slice(real_patents[1].patents, quota, quota + remainder)
        /\ Len(plan) = config.total_patents
        /\ collection.mode = "all" => all_patent_numbers \subseteq Planned(plan)

\* C22: within one run every patent number is requested at most once and
\* appears at most once in the collected data, also when it is listed under
\* two selected companies, and the counts of company_stats sum to the number
\* of planned patents.
C22_EveryNumberOnce ==
  pc.collector = "collected" =>
    LET plan == collection.patents_to_collect
        collected_data == collected_data_of(plan, collection.outcome, 0)
        counts == [k \in DOMAIN collection.company_stats |-> collection.company_stats[k].count]
    IN  /\ \A i, j \in DOMAIN plan : i # j => plan[i] # plan[j]
        /\ \A i, j \in DOMAIN collected_data :
             i # j => collected_data[i].publication_number # collected_data[j].publication_number
        /\ Sum(counts, DOMAIN counts) = collection.planned

\* the requests of the last run that scrape_patent_details answered
Successes ==
  {i \in DOMAIN collection.patents_to_collect : scrape_succeeds(collection.outcome, i)}

\* the records of the chunk files of the folder
StoredRecords ==
  UNION {{drive[f].content.data[i] : i \in DOMAIN drive[f].content.data} :
           f \in {g \in DOMAIN drive : drive[g].name = "patent_data_chunk"}}

\* C23: collect_real_patents returns the number of patents scraped and
\* stored: no record of a failed scrape is part of the saved data, the value
\* returned is the number of successful scrapes when the save succeeds, and
\* it is 0 when nothing was scraped or the save failed.
C23_ReturnsScrapedAndStored ==
  pc.collector = "collected" =>
    /\ collection.collected = Cardinality(Successes)
    /\ \A r \in StoredRecords : r.scraped_at[2] \in Successes
    /\ IF Successes # {} /\ saved.connected /\ ~saved.raised
       THEN collection.saved_count = Cardinality(Successes)
       ELSE collection.saved_count = 0

\* a run in which every second request failed and the rest was stored
C23_Witness ==
  /\ pc.collector = "collected"
  /\ collection.outcome = "odd"
  /\ collection.saved_count = Cardinality(Successes)
  /\ collection.saved_count \in 1..(collection.planned - 1)
  /\ Cardinality(StoredRecords) = collection.saved_count

\* the last call of save_to_google_drive uploaded every file
SavedInFull == saved # << >> /\ saved.connected /\ ~saved.raised

\* the files of the folder created from the first file of the last call on
FilesOfLastCall == SubSeq(drive, saved.first_file, Len(drive))

\* C24: save_to_google_drive uploads the metadata file first and then
\* consecutive chunks that partition the data: the chunks concatenated in the
\* order of chunk_number give the input list, every chunk is non-empty and
\* has at most chunk_size records, there are ceil(len(data) / chunk_size)
\* chunk files, and the metadata of a chunk carries its 1-based chunk_number,
\* the common total_chunks and its own number of records.
C24_ChunksPartitionData ==
  (pc.collector = "collected" /\ collection.collected > 0 /\ SavedInFull) =>
    LET files == FilesOfLastCall
        chunk_files == Tail(files)
        data == collected_data_of(collection.patents_to_collect, collection.outcome,
                                  saved.first_file - 1)
    IN  /\ files[1].name = "metadata"
        /\ \A k \in DOMAIN chunk_files :
             /\ chunk_files[k].name = "patent_data_chunk"
             /\ chunk_files[k].content.data # << >>
             /\ Len(chunk_files[k].content.data) <= ChunkSize
             /\ chunk_files[k].content.metadata =
                  [chunk_number |-> k, total_chunks |-> Len(chunk_files),
                   chunk_size |-> Len(chunk_files[k].content.data)]
        /\ extend_all(chunk_files) = data
        /\ Len(data) = saved.records
        /\ Len(chunk_files) * ChunkSize >= Len(data)
        /\ (Len(chunk_files) - 1) * ChunkSize < Len(data)

\* a save of three chunks, the last one of fewer records than the others
C24_Witness ==
  /\ pc.collector = "collected" /\ collection.collected > 0 /\ SavedInFull
  /\ Len(FilesOfLastCall) = 4
  /\ Len(FilesOfLastCall[2].content.data) = ChunkSize
  /\ Len(FilesOfLastCall[4].content.data) \in 1..(ChunkSize - 1)

\* C25: save_to_google_drive is all-or-nothing for the Drive folder: when it
\* returns 0 (no connection, or an upload raised) the folder holds no
\* metadata file and no chunk file of the call, and when it returns len(data)
\* the metadata file and all chunk files exist.
C25_SaveAllOrNothing ==
  (pc.collector = "collected" /\ collection.collected > 0) =>
    IF saved.returned = 0
    THEN FilesOfLastCall = << >>
    ELSE /\ saved.returned = saved.records
         /\ FilesOfLastCall =
              uploads_of(collected_data_of(collection.patents_to_collect, collection.outcome,
                                           saved.first_file - 1),
                         collection.company_stats)

\* the chunk files of the folder, by their position in the order of creation
ChunkFiles == {f \in DOMAIN drive : drive[f].name = "patent_data_chunk"}

\* the patent numbers stored in a file
NumbersOf(f) ==
  {drive[f].content.data[i].publication_number : i \in DOMAIN drive[f].content.data}

\* the most recently created chunk file that stores a number
LatestFileOf(number) ==
  CHOOSE f \in ChunkFiles :
    /\ number \in NumbersOf(f)
    /\ \A g \in ChunkFiles : number \in NumbersOf(g) => g <= f

C27_ReportAlwaysCompleted ==
  /\ pc.advanced # "raised"
  /\ pc.advanced \in {"emerging", "visualized", "reported"} =>
       /\ emerging_keywords # << >>
       /\ academic_rankings # << >>
       /\ org_stats # << >>

\* C28: every variant listed in company_mapping is effective: an assignee
\* equal to a listed variant is normalized to the company the variant is
\* listed under, and an assignee that no listed variant occurs in is left
\* unchanged.
C28_EveryVariantEffective ==
  pc.curved = "normalized" =>
    \A i \in DOMAIN df :
      /\ \A e \in DOMAIN company_mapping : \A v \in DOMAIN company_mapping[e].variants :
           df[i].assignee = company_mapping[e].variants[v]
             => df[i].normalized_assignee = company_mapping[e].normalized
      /\ (\A variant \in ListedVariants : ~ContainsNoCase(variant, df[i].assignee))
           => df[i].normalized_assignee = df[i].assignee

=============================================================================
